---- MODULE Spec2Model ----
(***************************************************************************)
(* Transfer supervision of telegram_download_bot: the active set, its      *)
(* persistence file, the download tasks with their await points, user      *)
(* cancellation, shutdown and restart (telegram_bot.py,                    *)
(* download_torrent.py).                                                   *)
(***************************************************************************)
EXTENDS Integers, Sequences, FiniteSets, Bags, TLC

\* ------------------------------------------------------------------ bounds
NumUsers == 1

\* The chats that talk to the bot.
Chats == {1, 2}

Users == 1..NumUsers

\* The task objects the event loop holds at one time.
Slots == {1, 2}

\* ------------------------------------------------------- python values
\* A chat id is an int; str(chat_id) is the decimal string of it.  Both are
\* kept apart by a tag, so that a key 1 and a key "1" differ.
PyInt(n) == [t |-> "int", v |-> n]

\* str(x)
str(x) == [t |-> "str", v |-> x.v]

\* The content descriptors a user can submit, with the classification
\* parse_torrent_name gives their manifest.
Sources == { [type |-> "magnet", value |-> "magnet:?xt=urn:btih:a", kind |-> "movie"],
             [type |-> "file", value |-> ".torrents/b.torrent", kind |-> "tv"] }

\* SAVE_PATHS lookup of button_handler.
final_save_path(kind) == IF kind = "movie" THEN "movies" ELSE IF kind = "tv" THEN "tv_shows" ELSE "default"

NoPending == [type |-> "none", value |-> "", kind |-> ""]

\* context.user_data['pending_torrent'] of handle_message and button_handler;
\* kind stands for parsed_info.
pending_torrent(src) == [type |-> src.type, value |-> src.value, kind |-> src.kind]

\* download_data as button_handler builds it, before 'task' is set.
download_data(p, c) == [source_dict |-> p, chat_id |-> c, save_path |-> final_save_path(p.kind)]

\* download_data['task'] = task
with_task(d, task) == [f \in (DOMAIN d) \cup {"task"} |-> IF f = "task" THEN task ELSE d[f]]

\* ------------------------------------------------------ persistence file
\* The content of persistence.json is a sequence of tokens: an object is
\* "{", one entry per key, "}"; [1] is a JSON array.  Missing stands for no
\* file at the path.
Missing == <<[t |-> "missing"]>>

LBrace == [t |-> "{"]

RBrace == [t |-> "}"]

Entry(k, v) == [t |-> "entry", k |-> k, v |-> v]

ArrayText == <<[t |-> "["], [t |-> "number"], [t |-> "]"]>>

\* serializable_data = download_data.copy(); serializable_data.pop('task', None)
serializable_data(d) == [f \in (DOMAIN d) \ {"task"} |-> d[f]]

\* The keys of a dict in the order json.dump writes them.
RECURSIVE KeySeq(_)
KeySeq(ks) == IF ks = {} THEN <<>> ELSE LET k == CHOOSE a \in ks : \A b \in ks : a.v < b.v \/ (a.v = b.v /\ (a.t = b.t \/ a.t = "int")) IN <<k>> \o KeySeq(ks \ {k})

\* json.dump(obj): an object's keys are written as strings (an int key is
\* coerced), its values as they are.
json_dump(obj) == LET ks == KeySeq(DOMAIN obj) IN <<LBrace>> \o [i \in 1..Len(ks) |-> Entry(str(ks[i]), obj[ks[i]])] \o <<RBrace>>

\* The text save_active_downloads writes for an active set.
Serialization(active) == json_dump([k \in DOMAIN active |-> serializable_data(active[k])])

\* A save that leaves the task entries in.
dump_with_tasks(active) == json_dump(active)

\* The text json.dump is handed in save_active_downloads.
save_active_downloads(active) == Serialization(active)

\* How a write of the file goes: it is written, open(file_path, 'w') raises
\* and the file is as before, json.dump raises after open has emptied it.
Writes == {"written", "open_raises", "dump_raises"}

\* A file opened for appending keeps what it holds.
open_a(file) == IF file = Missing THEN <<>> ELSE file

\* open(file_path, 'w'): the file is made or emptied.
open_w(file) == <<>>

\* The file after save_active_downloads has run on it.
saved_file(file, active, write) == IF write = "written" THEN open_w(file) \o save_active_downloads(active) ELSE IF write = "open_raises" THEN file ELSE open_w(file)

\* A save without its except clause: the error of the write leaves it.
save_reraises(write) == IF write = "written" THEN "returns" ELSE "raises"

\* How save_active_downloads ends: except Exception logs the error of the
\* write, the call returns.
save_ends(write) == "returns"

IsObjectText(toks) == /\ Len(toks) >= 2
                      /\ toks[1] = LBrace
                      /\ toks[Len(toks)] = RBrace
                      /\ \A i \in 2..(Len(toks) - 1) : toks[i].t = "entry"

\* The texts json.load takes; any other raises JSONDecodeError.
Decodes(toks) == IsObjectText(toks) \/ toks = ArrayText

PyDict(f) == [t |-> "dict", items |-> f]

PyList == [t |-> "list", len |-> 1]

\* json.load of an object: a later duplicate key wins.
json_load_object(toks) == LET n == Len(toks) IN [k \in {toks[i].k : i \in 2..(n - 1)} |-> toks[CHOOSE i \in 2..(n - 1) : toks[i].k = k /\ \A j \in (i + 1)..(n - 1) : toks[j].k # k].v]

json_load(toks) == IF IsObjectText(toks) THEN PyDict(json_load_object(toks)) ELSE PyList

\* load_active_downloads: {} for a missing file and for text json.load
\* rejects, else whatever json.load returns.
load_active_downloads(file) == IF file = Missing THEN PyDict(<<>>) ELSE IF Decodes(file) THEN json_load(file) ELSE PyDict(<<>>)

\* A python dict, as against a number.
IsRecord(v) == "t" \notin DOMAIN v

\* ------------------------------------------------------------ the state
\* is_shutting_down, active_downloads: bot_data; a record of the active set
\*   holds its task object under 'task'
\* persistence_file: the content of persistence.json
\* loop_tasks: the tasks of the event loop that no record holds
\* user_data: per user pending_torrent and temp_magnet_choices
\* torrents_dir: the files under .torrents
\* phase: running, draining (post_shutdown awaits its gather), stopped
\* pending_write: the text an open save has still to write
\* last: the last step taken
\* TORRENT_SESSION: the torrents registered with the shared engine session
\* worker: the thread that runs _blocking_fetch_metadata
\* parts_files: the .parts files in the save directories
\* monotonic: the value of time.monotonic(), in seconds
\* last_update_time: the variable of that name of download_task_wrapper
\* transfer: the main loop of download_with_progress and the progress
\*   message of its chat
\* media_files: the media files under the save paths
\* ALLOWED_USER_IDS: bot_data['ALLOWED_USER_IDS']
\* prompts: the confirmation prompts sent, by message id: the chat, the
\*   torrent the text describes, and whether the buttons are still shown
VARIABLES is_shutting_down, active_downloads, persistence_file, loop_tasks,
          user_data, torrents_dir, phase, pending_write, last,
          TORRENT_SESSION, worker, parts_files,
          monotonic, last_update_time, transfer,
          media_files, ALLOWED_USER_IDS, prompts

vars == <<is_shutting_down, active_downloads, persistence_file, loop_tasks, user_data, torrents_dir, phase, pending_write, last, TORRENT_SESSION, worker, parts_files, monotonic, last_update_time, transfer, media_files, ALLOWED_USER_IDS, prompts>>

\* No call of _blocking_fetch_metadata is under way.
\* No edit of the progress message yet.
Never == -1

\* No main loop is looked at.
NoTransfer == [pc |-> "none", state |-> "", message |-> "", edited |-> Never, previous |-> Never, by |-> ""]

Idle == [pc |-> "idle", magnet |-> "", elapsed |-> 0, result |-> "none"]

\* asyncio.create_task(download_task_wrapper(download_data, application)):
\* the coroutine holds download_data and has not run yet.
create_task(d, flag) == [pc |-> "new", chat_id |-> d.chat_id, type |-> d.source_dict.type, value |-> d.source_dict.value, save_path |-> d.save_path, cancel |-> "none", flag_at_start |-> flag, removed |-> "none"]

EmptyDict == [k \in {} |-> 0]

DictSet(d, k, v) == [x \in (DOMAIN d) \cup {k} |-> IF x = k THEN v ELSE d[x]]

DictDel(d, k) == [x \in (DOMAIN d) \ {k} |-> d[x]]

One(x) == SetToBag({x})

\* user_data without the key pending_delete_info, and with None under it.
Absent == [title |-> "", ext |-> "absent"]

None == [title |-> "", ext |-> "None"]

\* The media files on disk: two files of one movie, one of another.
Library == {[title |-> "A (2020)", ext |-> ".mkv"], [title |-> "A (2020)", ext |-> ".mp4"], [title |-> "B (2021)", ext |-> ".mkv"]}

NoUserData == [pending_torrent |-> NoPending, temp_magnet_choices |-> FALSE, waiting_for_delete_input |-> FALSE, pending_delete_info |-> Absent]

\* The last step taken: the operation, the chat of the task it was about,
\* the shutdown flag it ran under, the await point the task was resumed at,
\* the engine removal it made, how the task ended, who had asked for the
\* cancellation it observed, the .torrent file of the task that ended.
NoEvent == [op |-> "none", chat |-> 0, flag |-> FALSE, point |-> "", removal |-> "none", outcome |-> "", by |-> "none", torrent |-> "", data |-> "none"]

Event(op, c, point, removal, outcome, by) == [op |-> op, chat |-> c, flag |-> is_shutting_down, point |-> point, removal |-> removal, outcome |-> outcome, by |-> by, torrent |-> "", data |-> "none"]

\* The end of a task; data is what the task has done to the torrent of its
\* engine session, at this step or before: removed with its files
\* ("delete"), removed alone ("keep"), not removed ("none").
TaskEnd(task, point, removal, outcome, by) == [Event("task_end", task.chat_id, point, removal, outcome, by) EXCEPT !.torrent = IF task.type = "file" THEN task.value ELSE "", !.data = IF removal # "none" THEN removal ELSE task.removed]

\* Steps no property looks back at leave no mark.
HandlerEvent(op, c) == NoEvent

\* task.done()
done(task) == task.pc = "done"

\* A task is named by the record that holds it or, held by no record, by
\* its state among the tasks of the loop.
Held == {[key |-> k, task |-> active_downloads[k].task] : k \in DOMAIN active_downloads}

Loose == {[key |-> PyInt(0), task |-> t] : t \in BagToSet(loop_tasks)}

IsHeld(h) == h.key # PyInt(0)

\* The tasks that are not done, per chat.
LiveTasks(c) == Cardinality({h \in Held : h.task.chat_id = c /\ ~done(h.task)}) + BagCardinality([t \in {x \in BagToSet(loop_tasks) : x.chat_id = c} |-> CopiesIn(t, loop_tasks)])

AllLive == Cardinality({h \in Held : ~done(h.task)}) + BagCardinality(loop_tasks)

\* The state of a fresh installation after __main__ and post_init: no
\* persistence file, an empty active set.
Init == /\ is_shutting_down = FALSE
        /\ active_downloads = EmptyDict
        /\ persistence_file = Missing
        /\ loop_tasks = EmptyBag
        /\ user_data = [u \in Users |-> NoUserData]
        /\ torrents_dir = {}
        /\ phase = "running"
        /\ pending_write = <<>>
        /\ last = NoEvent
        /\ TORRENT_SESSION = {}
        /\ worker = Idle
        /\ parts_files = {}
        /\ monotonic = 0
        /\ last_update_time = 0
        /\ transfer = NoTransfer
        /\ media_files = Library
        /\ ALLOWED_USER_IDS = {}
        /\ prompts = <<>>

\* ------------------------------------------------------------- handlers
\* The application processes one update at a time: a handler is one step.
\* The prompts a handler sends stay in their chats, so a button can be
\* pressed in any chat at any later time.

\* message.chat_id itself as the key.
int_key(c) == PyInt(c)

\* str(message.chat_id), the key button_handler files a record under.
record_key(c) == str(PyInt(c))

HandlerVars == <<is_shutting_down, phase, pending_write, TORRENT_SESSION, worker, parts_files, monotonic, last_update_time, transfer, media_files, ALLOWED_USER_IDS, prompts>>

\* handle_message, a download is in progress for the chat: refused.
handle_message_refused(u, c) == /\ phase = "running"
                                /\ str(PyInt(c)) \in DOMAIN active_downloads
                                /\ last' = HandlerEvent("handle_message", c)
                                /\ UNCHANGED <<HandlerVars, active_downloads, persistence_file, loop_tasks, user_data, torrents_dir>>

\* handle_message, the content is analysed and turned down for its size or
\* its file types: a .torrent file has been written by then, and it stays,
\* since the edit_text that reports the reason raises before os.remove.
handle_message_rejected(u, c, src) == /\ phase = "running"
                                      /\ str(PyInt(c)) \notin DOMAIN active_downloads
                                      /\ torrents_dir' = IF src.type = "file" THEN torrents_dir \cup {src.value} ELSE torrents_dir
                                      /\ last' = HandlerEvent("handle_message", c)
                                      /\ UNCHANGED <<HandlerVars, active_downloads, persistence_file, loop_tasks, user_data>>

\* handle_message, a web page with several magnet links: the choices are
\* kept and a selection prompt is sent.
handle_message_choices(u, c) == /\ phase = "running"
                                /\ str(PyInt(c)) \notin DOMAIN active_downloads
                                /\ user_data' = [user_data EXCEPT ![u].temp_magnet_choices = TRUE]
                                /\ last' = HandlerEvent("handle_message", c)
                                /\ UNCHANGED <<HandlerVars, active_downloads, persistence_file, loop_tasks, torrents_dir>>

\* handle_message, the content passes: a .torrent file is kept under
\* .torrents, the pending torrent is stored, a confirmation prompt is sent.
handle_message(u, c, src) == /\ phase = "running"
                             /\ str(PyInt(c)) \notin DOMAIN active_downloads
                             /\ user_data' = [user_data EXCEPT ![u].pending_torrent = pending_torrent(src)]
                             /\ torrents_dir' = IF src.type = "file" THEN torrents_dir \cup {src.value} ELSE torrents_dir
                             /\ last' = HandlerEvent("handle_message", c)
                             /\ UNCHANGED <<HandlerVars, active_downloads, persistence_file, loop_tasks>>

\* button_handler, select_magnet_N: the choices are popped; the selected
\* magnet is analysed and, if it passes, becomes the pending torrent.
select_magnet(u, c, src, passes) == /\ phase = "running"
                                    /\ user_data[u].temp_magnet_choices
                                    /\ src.type = "magnet"
                                    /\ user_data' = [user_data EXCEPT ![u].temp_magnet_choices = FALSE, ![u].pending_torrent = IF passes THEN pending_torrent(src) ELSE @]
                                    /\ last' = HandlerEvent("select_magnet", c)
                                    /\ UNCHANGED <<HandlerVars, active_downloads, persistence_file, loop_tasks, torrents_dir>>

\* button_handler, a button whose choices or pending torrent are gone.
button_expired(u, c, button) == /\ phase = "running"
                                /\ IF button = "select_magnet" THEN ~user_data[u].temp_magnet_choices ELSE user_data[u].pending_torrent = NoPending
                                /\ last' = HandlerEvent("button_expired", c)
                                /\ UNCHANGED <<HandlerVars, active_downloads, persistence_file, loop_tasks, user_data, torrents_dir>>

\* A read that leaves the pending torrent in user_data.
peeked(data) == data

\* context.user_data.pop('pending_torrent')
popped(data) == [data EXCEPT !.pending_torrent = NoPending]

\* button_handler, cancel_operation: the pending torrent is popped.
cancel_operation(u, c) == /\ phase = "running"
                          /\ user_data[u].pending_torrent # NoPending
                          /\ user_data' = [user_data EXCEPT ![u] = popped(@)]
                          /\ last' = HandlerEvent("cancel_operation", c)
                          /\ UNCHANGED <<HandlerVars, active_downloads, persistence_file, loop_tasks, torrents_dir>>

\* active_downloads[key] = d: the task of a record that is replaced goes on
\* in the event loop.
Replaced(k) == IF k \in DOMAIN active_downloads /\ ~done(active_downloads[k].task) THEN One(active_downloads[k].task) ELSE EmptyBag

\* button_handler, confirm_download, pressed in chat c: the pending torrent
\* is popped, the task is created, the record is filed under the chat of the
\* message and the active set is saved.
confirm_download_save(u, c, write) ==
    /\ phase = "running"
    /\ user_data[u].pending_torrent # NoPending
    /\ AllLive < Cardinality(Slots)
    /\ LET d == download_data(user_data[u].pending_torrent, c)
           task == create_task(d, is_shutting_down)
           act == DictSet(active_downloads, record_key(c), with_task(d, task))
       IN /\ active_downloads' = act
          /\ loop_tasks' = loop_tasks (+) Replaced(record_key(c))
          /\ persistence_file' = saved_file(persistence_file, act, write)
    /\ user_data' = [user_data EXCEPT ![u] = popped(@)]
    /\ last' = Event("confirm_download", c, "", "none", IF save_ends(write) = "returns" THEN "" ELSE "raised", "none")
    /\ UNCHANGED <<HandlerVars, torrents_dir>>

\* The same with a file system that takes the write.
confirm_download(u, c) == confirm_download_save(u, c, "written")

\* cancel_command with a record whose task is not done: task.cancel().
cancel_command(c) == /\ phase = "running"
                     /\ str(PyInt(c)) \in DOMAIN active_downloads
                     /\ ~done(active_downloads[str(PyInt(c))].task)
                     /\ active_downloads[str(PyInt(c))].task.cancel = "none"
                     /\ active_downloads' = [active_downloads EXCEPT ![str(PyInt(c))].task.cancel = "user"]
                     /\ last' = HandlerEvent("cancel_command", c)
                     /\ UNCHANGED <<HandlerVars, persistence_file, loop_tasks, user_data, torrents_dir>>

\* cancel_command without a record, or with a record whose task is done:
\* a reply only.
cancel_command_idle(c) == /\ phase = "running"
                          /\ str(PyInt(c)) \in DOMAIN active_downloads => done(active_downloads[str(PyInt(c))].task)
                          /\ last' = HandlerEvent("cancel_command", c)
                          /\ UNCHANGED <<HandlerVars, active_downloads, persistence_file, loop_tasks, user_data, torrents_dir>>

\* ---------------------------------------------------------------- tasks
\* A task runs from one await to the next in one step.  Its positions:
\*   new            created, not run yet
\*   meta_wait      download_with_progress: await asyncio.sleep(1), metadata
\*   callback       await status_callback(s) of the main loop
\*   tick           await asyncio.sleep(5) of the main loop
\*   final_callback await status_callback(handle.status()) after the loop
\*   flush_wait     await asyncio.sleep(1) after ses.pause()
\*   post_processing download_task_wrapper: await asyncio.to_thread(...) of
\*                  the library scan, after the file has been moved
\*   final_notify   the final edit_message_text
\*   cancel_notify  the edit_message_text of except CancelledError
\*   error_notify   the edit_message_text of except Exception
\*   done

\* The flag as it was when the task was created.
flag_when_started(task) == task.flag_at_start

\* bot_data.get('is_shutting_down', False), read when the task observes it.
shutdown_flag(task) == is_shutting_down

TaskVars == <<is_shutting_down, user_data, phase, pending_write, TORRENT_SESSION, worker, monotonic, last_update_time, transfer, media_files, ALLOWED_USER_IDS, prompts>>

\* The .parts file of a transfer: libtorrent keeps it in the save path under
\* the info-hash of the torrent.
parts_file(task) == [dir |-> task.save_path, name |-> task.value]

\* ses.remove_torrent(handle, lt.session.delete_files) deletes the files of
\* the torrent, ses.remove_torrent(handle) leaves them.
remove_torrent_files(files, task, removal) == IF removal = "delete" THEN files \ {parts_file(task)} ELSE files

\* The scan of the finally block: every file of base_save_path whose name
\* ends in .parts is removed.
parts_cleanup(files, task) == {f \in files : f.dir # task.save_path}

PutActive(h, task) == IF IsHeld(h) THEN [active_downloads EXCEPT ![h.key].task = task] ELSE active_downloads

PutLoop(h, task) == IF IsHeld(h) THEN loop_tasks ELSE (loop_tasks (-) One(h.task)) (+) One(task)

\* The task goes on to its next await.
Goto(h, pc, event) == /\ active_downloads' = PutActive(h, [h.task EXCEPT !.pc = pc, !.cancel = "none", !.removed = IF event.removal # "none" THEN event.removal ELSE @])
                      /\ loop_tasks' = PutLoop(h, [h.task EXCEPT !.pc = pc, !.cancel = "none", !.removed = IF event.removal # "none" THEN event.removal ELSE @])
                      /\ parts_files' = remove_torrent_files(parts_files, h.task, event.removal)
                      /\ last' = event
                      /\ UNCHANGED <<TaskVars, persistence_file, torrents_dir>>

Quiet == NoEvent

\* The finally block of download_task_wrapper, then the task is done.  With
\* the flag clear it deletes the record under str(chat_id), whatever task
\* that record holds, saves, and removes the task's .torrent file.
FinishSave(h, point, removal, outcome, by, write) ==
    LET task == h.task
        ended == [task EXCEPT !.pc = "done", !.cancel = "none"]
        key == str(PyInt(task.chat_id))
        cleanup == ~shutdown_flag(task)
        act1 == PutActive(h, ended)
        loop1 == IF IsHeld(h) THEN loop_tasks ELSE loop_tasks (-) One(task)
        deletes == cleanup /\ key \in DOMAIN act1
        act2 == IF deletes THEN DictDel(act1, key) ELSE act1
        loop2 == IF deletes /\ ~done(act1[key].task) THEN loop1 (+) One(act1[key].task) ELSE loop1
        goes_on == cleanup /\ (deletes => save_ends(write) = "returns")
        removed == remove_torrent_files(parts_files, task, removal)
    IN /\ active_downloads' = act2
       /\ loop_tasks' = loop2
       /\ persistence_file' = IF deletes THEN saved_file(persistence_file, act2, write) ELSE persistence_file
       /\ torrents_dir' = IF goes_on /\ task.type = "file" THEN torrents_dir \ {task.value} ELSE torrents_dir
       /\ parts_files' = IF goes_on THEN parts_cleanup(removed, task) ELSE removed
       /\ last' = TaskEnd(task, point, removal, IF deletes /\ save_ends(write) = "raises" THEN "raised" ELSE outcome, by)
       /\ UNCHANGED TaskVars

\* The same with a file system that takes the write.
Finish(h, point, removal, outcome, by) == FinishSave(h, point, removal, outcome, by, "written")

Runs(h, pc) == h.task.pc = pc /\ h.task.cancel = "none"

\* First step: lt.torrent_info(source) of a .torrent file that is gone
\* raises RuntimeError and the transfer returns (False, None).
task_start(h) == /\ Runs(h, "new")
                 /\ IF h.task.type = "file" /\ h.task.value \notin torrents_dir
                      THEN Finish(h, "new", "none", "load_failed", "none")
                      ELSE Goto(h, IF h.task.type = "magnet" THEN "meta_wait" ELSE "callback", Quiet)

\* while not handle.status().has_metadata: await asyncio.sleep(1) -- the
\* sleep returns and the torrent has no metadata yet.
meta_wait_sleeps(h) == Runs(h, "meta_wait") /\ Goto(h, "meta_wait", Quiet)

meta_wait_wakes(h) == Runs(h, "meta_wait") /\ Goto(h, "callback", Quiet)

\* status_callback returns; the status read before it was seeding or
\* finished, or was not.
callback_returns(h, finished) == Runs(h, "callback") /\ Goto(h, IF finished THEN "final_callback" ELSE "tick", Quiet)

tick_wakes(h) == Runs(h, "tick") /\ Goto(h, "callback", Quiet)

final_callback_returns(h) == Runs(h, "final_callback") /\ Goto(h, "flush_wait", Quiet)

flush_done(h) == Runs(h, "flush_wait") /\ Goto(h, "post_processing", Quiet)

\* The scan is triggered or fails with an error the wrapper catches.
post_processing_done(h) == Runs(h, "post_processing") /\ Goto(h, "final_notify", Quiet)

final_notify_returns(h) == Runs(h, "final_notify") /\ Finish(h, "final_notify", "none", "success", "none")

\* edit_message_text raises an error other than BadRequest in the progress
\* callback or at the final message: except Exception of the wrapper.
notify_raises(h) == /\ h.task.pc \in {"callback", "final_callback", "final_notify"}
                    /\ h.task.cancel = "none"
                    /\ Goto(h, "error_notify", Quiet)

\* edit_message_text of the Cancelled or of the Error message raises (a
\* BadRequest other than "Message is not modified", a network error): the
\* exception leaves the except clause, the finally block runs, no message
\* is shown.
final_message_raises(h) == (Runs(h, "cancel_notify") \/ Runs(h, "error_notify")) /\ Finish(h, h.task.pc, "none", "raised", "none")

cancel_notify_returns(h) == Runs(h, "cancel_notify") /\ Finish(h, "cancel_notify", "none", "user_cancelled", "none")

error_notify_returns(h) == Runs(h, "error_notify") /\ Finish(h, "error_notify", "none", "error", "none")

\* The awaits download_with_progress wraps in try/except CancelledError.
GuardedSleeps == {"meta_wait", "tick"}

\* The awaits inside the try block of download_task_wrapper.
InTry == {"meta_wait", "callback", "tick", "final_callback", "flush_wait", "post_processing", "final_notify"}

\* A removal with lt.session.delete_files whatever the flag.
remove_with_delete(task) == IF task.pc \in GuardedSleeps THEN "delete" ELSE "none"

\* ses.remove_torrent of the except CancelledError clauses.
removal_on_cancel(task) == IF task.pc \in GuardedSleeps THEN (IF ~shutdown_flag(task) THEN "delete" ELSE "keep") ELSE "none"

\* The await the task is suspended at raises CancelledError.
cancel_observed(h) == /\ h.task.pc \in InTry \cup {"cancel_notify", "error_notify"}
                      /\ h.task.cancel # "none"
                      /\ IF h.task.pc \in InTry /\ ~shutdown_flag(h.task)
                           THEN Goto(h, "cancel_notify", Event("cancel_observed", h.task.chat_id, h.task.pc, removal_on_cancel(h.task), "", h.task.cancel))
                           ELSE Finish(h, h.task.pc, removal_on_cancel(h.task), "cancelled", h.task.cancel)

\* A task cancelled before its first step never runs its body.
cancel_unstarted(h) == /\ h.task.pc = "new"
                       /\ h.task.cancel # "none"
                       /\ active_downloads' = PutActive(h, [h.task EXCEPT !.pc = "done", !.cancel = "none"])
                       /\ loop_tasks' = IF IsHeld(h) THEN loop_tasks ELSE loop_tasks (-) One(h.task)
                       /\ last' = TaskEnd(h.task, "new", "none", "cancelled_unstarted", h.task.cancel)
                       /\ UNCHANGED <<TaskVars, persistence_file, torrents_dir, parts_files>>

\* ------------------------------------------------------ engine sessions
\* The awaits of download_with_progress: at each of them the local ses, made
\* by lt.session(...) in its first step, is alive and holds the torrent of
\* the transfer; del ses follows the last of them.
HoldsSession == {"meta_wait", "callback", "tick", "final_callback", "flush_wait"}

\* The engine sessions of the process: bot_data["TORRENT_SESSION"] made by
\* __main__ and the ses of every transfer under way.
engine_sessions == [shared |-> 1, own |-> Cardinality({h \in Held \cup Loose : h.task.pc \in HoldsSession})]

\* The session a transfer has added its torrent to.
session_of(h) == IF h.task.value \in TORRENT_SESSION THEN "TORRENT_SESSION" ELSE "ses"

\* ------------------------------------------------------------ lifecycle
\* The flag left as it was.
flag_left_clear == FALSE

\* The value post_shutdown gives the flag before it cancels.
flag_of_post_shutdown == TRUE

\* No task is asked to stop.
cancel_none == {}

\* tasks_to_cancel of post_shutdown, by the keys of their records.
tasks_to_cancel == {k \in DOMAIN active_downloads : ~done(active_downloads[k].task)}

\* post_shutdown: the flag, then cancel() on every task of the active set
\* that is not done, then the gather.  The handlers have stopped; user_data
\* is not read again.
post_shutdown == /\ phase = "running"
                 /\ is_shutting_down' = flag_of_post_shutdown
                 /\ active_downloads' = [k \in DOMAIN active_downloads |-> IF k \in tasks_to_cancel THEN [active_downloads[k] EXCEPT !.task.cancel = "shutdown"] ELSE active_downloads[k]]
                 /\ phase' = "draining"
                 /\ user_data' = [u \in Users |-> NoUserData]
                 /\ last' = [NoEvent EXCEPT !.op = "post_shutdown"]
                 /\ UNCHANGED <<persistence_file, loop_tasks, torrents_dir, pending_write, TORRENT_SESSION, worker, parts_files, monotonic, last_update_time, transfer, media_files, ALLOWED_USER_IDS, prompts>>

\* The gather returns (at once if there was nothing to cancel), the process
\* exits and its memory is gone.
gather_returns == /\ phase = "draining"
                  /\ \A h \in Held : done(h.task)
                  /\ phase' = "stopped"
                  /\ is_shutting_down' = FALSE
                  /\ active_downloads' = EmptyDict
                  /\ loop_tasks' = EmptyBag
                  /\ last' = [NoEvent EXCEPT !.op = "exit"]
                  /\ UNCHANGED <<persistence_file, user_data, torrents_dir, pending_write, TORRENT_SESSION, worker, parts_files, monotonic, last_update_time, transfer, media_files, ALLOWED_USER_IDS, prompts>>

\* download_data['task'] = task raises TypeError on a value that is no dict,
\* .items() raises AttributeError on a list.
post_init_raises(loaded) == \/ loaded.t = "list"
                            \/ loaded.t = "dict" /\ \E k \in DOMAIN loaded.items : ~IsRecord(loaded.items[k])

\* Tasks that run with the default save path instead of the persisted one.
resumed_elsewhere(loaded) == [k \in DOMAIN loaded.items |-> with_task(loaded.items[k], [create_task(loaded.items[k], is_shutting_down) EXCEPT !.save_path = "default"])]

\* The loop of post_init: every loaded record gets a new task.
resumed(loaded) == [k \in DOMAIN loaded.items |-> with_task(loaded.items[k], create_task(loaded.items[k], is_shutting_down))]

\* post_init of a new process: the file is loaded, every record gets a new
\* task, the active set is the loaded one.  If post_init raises, startup
\* fails and bot_data keeps the empty set of __main__.
post_init == /\ phase = "stopped"
             /\ LET loaded == load_active_downloads(persistence_file)
                IN IF post_init_raises(loaded)
                     THEN /\ active_downloads' = EmptyDict
                          /\ phase' = "failed"
                     ELSE /\ active_downloads' = resumed(loaded)
                          /\ phase' = "running"
             /\ last' = [NoEvent EXCEPT !.op = "post_init"]
             /\ UNCHANGED <<is_shutting_down, persistence_file, loop_tasks, user_data, torrents_dir, pending_write, TORRENT_SESSION, worker, parts_files, monotonic, last_update_time, transfer, media_files, ALLOWED_USER_IDS, prompts>>

Handles == Held \cup Loose

Next == \/ \E u \in Users, c \in Chats : \/ handle_message_refused(u, c)
                                         \/ \E src \in Sources : handle_message_rejected(u, c, src)
                                         \/ handle_message_choices(u, c)
                                         \/ \E src \in Sources : handle_message(u, c, src)
                                         \/ \E src \in Sources, passes \in BOOLEAN : select_magnet(u, c, src, passes)
                                         \/ \E button \in {"select_magnet", "confirm_download"} : button_expired(u, c, button)
                                         \/ cancel_operation(u, c)
                                         \/ confirm_download(u, c)
        \/ \E c \in Chats : cancel_command(c) \/ cancel_command_idle(c)
        \/ \E h \in Handles : task_start(h)
        \/ \E h \in Handles : meta_wait_sleeps(h)
        \/ \E h \in Handles : meta_wait_wakes(h)
        \/ \E h \in Handles, finished \in BOOLEAN : callback_returns(h, finished)
        \/ \E h \in Handles : tick_wakes(h)
        \/ \E h \in Handles : final_callback_returns(h)
        \/ \E h \in Handles : flush_done(h)
        \/ \E h \in Handles : post_processing_done(h)
        \/ \E h \in Handles : final_notify_returns(h)
        \/ \E h \in Handles : notify_raises(h)
        \/ \E h \in Handles : final_message_raises(h)
        \/ \E h \in Handles : cancel_notify_returns(h)
        \/ \E h \in Handles : error_notify_returns(h)
        \/ \E h \in Handles : cancel_observed(h)
        \/ \E h \in Handles : cancel_unstarted(h)
        \/ post_shutdown
        \/ gather_returns
        \/ post_init

Spec == Init /\ [][Next]_vars

\* The event loop runs every task that is ready: a task whose cancellation
\* was requested is resumed, and post_shutdown is resumed once its gather is
\* complete.
SpecFair == /\ Spec
            /\ WF_vars(\E h \in Handles : cancel_observed(h))
            /\ WF_vars(\E h \in Handles : cancel_unstarted(h))
            /\ WF_vars(gather_returns)

\* ------------------------------------------------- the persistence store
\* The store on its own, a save taken in the steps the file system sees:
\* open(file_path, 'w') truncates the file, json.dump writes the text piece
\* by piece, and the process can be stopped between any two of them.

NoSource == [type |-> "none", value |-> "", kind |-> ""]

\* The active sets of a running process: per chat no record or a record of
\* one of the sources, each with its task.
ActiveOf(f) == [k \in {str(PyInt(c)) : c \in {x \in Chats : f[x] # NoSource}} |-> LET d == download_data(pending_torrent(f[k.v]), k.v) IN with_task(d, create_task(d, FALSE))]

StoreSets == {ActiveOf(f) : f \in [Chats -> Sources \cup {NoSource}]}

\* Contents of the file that no save has written: a JSON array, an object
\* whose value is a number.
ForeignTexts == {ArrayText, <<LBrace, Entry(str(PyInt(1)), PyInt(5)), RBrace>>}

InitStore == /\ is_shutting_down = FALSE
             /\ active_downloads \in StoreSets
             /\ persistence_file \in {Serialization(active_downloads)} \cup (IF active_downloads = EmptyDict THEN {Missing} ELSE {})
             /\ loop_tasks = EmptyBag
             /\ user_data = [u \in Users |-> NoUserData]
             /\ torrents_dir = {}
             /\ phase = "running"
             /\ pending_write = <<>>
             /\ last = NoEvent
             /\ TORRENT_SESSION = {}
             /\ worker = Idle
             /\ parts_files = {}
             /\ monotonic = 0
             /\ last_update_time = 0
             /\ transfer = NoTransfer
             /\ media_files = Library
             /\ ALLOWED_USER_IDS = {}
             /\ prompts = <<>>

StoreVars == <<is_shutting_down, loop_tasks, user_data, torrents_dir, TORRENT_SESSION, worker, parts_files, monotonic, last_update_time, transfer, media_files, ALLOWED_USER_IDS, prompts>>

\* save_active_downloads up to open(file_path, 'w'), after the mutation
\* that calls it: the file is empty, the text is still to be written.
save_opens(act) == /\ phase = "running"
                   /\ pending_write = <<>>
                   /\ active_downloads' = act
                   /\ persistence_file' = <<>>
                   /\ pending_write' = save_active_downloads(act)
                   /\ last' = [op |-> "save_opens", old |-> persistence_file, new |-> save_active_downloads(act)]
                   /\ UNCHANGED <<StoreVars, phase>>

\* active_downloads[str(message.chat_id)] = download_data
record_added(c, src) == save_opens(DictSet(active_downloads, record_key(c), LET d == download_data(pending_torrent(src), c) IN with_task(d, create_task(d, is_shutting_down))))

\* del active_downloads[str(chat_id)]
record_removed(c) == /\ str(PyInt(c)) \in DOMAIN active_downloads
                     /\ save_opens(DictDel(active_downloads, str(PyInt(c))))

\* json.dump writes the next piece of the text.
save_writes == /\ phase = "running"
               /\ pending_write # <<>>
               /\ persistence_file' = Append(persistence_file, Head(pending_write))
               /\ pending_write' = Tail(pending_write)
               /\ last' = [last EXCEPT !.op = "save_writes"]
               /\ UNCHANGED <<StoreVars, active_downloads, phase>>

\* The process is stopped (killed, power loss): its memory is gone, the file
\* is what it was at that point.
process_killed == /\ phase = "running"
                  /\ phase' = "stopped"
                  /\ active_downloads' = EmptyDict
                  /\ pending_write' = <<>>
                  /\ last' = IF pending_write # <<>> THEN [last EXCEPT !.op = "killed_in_save"] ELSE [op |-> "killed", old |-> persistence_file, new |-> persistence_file]
                  /\ UNCHANGED <<StoreVars, persistence_file>>

\* The file has other content when the next process starts.
file_replaced(text) == /\ phase \in {"stopped", "failed"}
                       /\ persistence_file # text
                       /\ persistence_file' = text
                       /\ phase' = "stopped"
                       /\ last' = [NoEvent EXCEPT !.op = "file_replaced"]
                       /\ UNCHANGED <<StoreVars, active_downloads, pending_write>>

NextStore == \/ \E c \in Chats, src \in Sources : record_added(c, src)
             \/ \E c \in Chats : record_removed(c)
             \/ save_writes
             \/ process_killed
             \/ \E text \in ForeignTexts : file_replaced(text)
             \/ post_init

SpecStore == InitStore /\ [][NextStore]_vars

\* ------------------------------------------------------ content policy
\* Sizes are byte counts.  A size is kept as whole GiB and the bytes beyond
\* them, so that 10 GiB and one byte more are told apart.
GiB == 1073741824

MAX_TORRENT_SIZE_GB == 10

MaxFiles == 2

Size(g, b) == [g |-> g, b |-> b]

\* x + y
Add(x, y) == [g |-> x.g + y.g + ((x.b + y.b) \div GiB), b |-> (x.b + y.b) % GiB]

\* x > y
Gt(x, y) == x.g > y.g \/ (x.g = y.g /\ x.b > y.b)

MAX_TORRENT_SIZE_BYTES == Size(MAX_TORRENT_SIZE_GB, 0)

\* 10 * 1024 * 1024 of validate_torrent_files
SubstantialSize == Size(0, 10 * 1024 * 1024)

ALLOWED_EXTENSIONS == {".mkv", ".mp4"}

\* ext.lower()
lower(ext) == IF ext = ".MKV" THEN ".mkv" ELSE ext

\* The entries a manifest is made of: 1 MiB, exactly 10 MiB, one byte more,
\* 50 MiB, 600 MiB, 10 GiB, 10 GiB and a byte, each with an allowed
\* extension, an allowed one in capitals and one that is not allowed.
FileSizes == {Size(0, 1048576), Size(0, 10485760), Size(0, 10485761), Size(0, 52428800), Size(0, 629145600), Size(10, 0), Size(10, 1)}

Files == {[size |-> sz, ext |-> e] : sz \in FileSizes, e \in {".mkv", ".MKV", ".exe"}}

\* A manifest (torrent_info) is the sequence of its entries.
RECURSIVE SeqsUpTo(_, _)
SeqsUpTo(S, n) == IF n = 0 THEN {<<>>} ELSE LET shorter == SeqsUpTo(S, n - 1) IN shorter \cup {Append(q, x) : q \in {r \in shorter : Len(r) = n - 1}, x \in S}

Manifests == SeqsUpTo(Files, MaxFiles)

\* ti.total_size()
RECURSIVE total_size(_)
total_size(ti) == IF ti = <<>> THEN Size(0, 0) ELSE Add(Head(ti).size, total_size(Tail(ti)))

\* ti.total_size() > MAX_TORRENT_SIZE_BYTES
size_exceeded(ti) == Gt(total_size(ti), MAX_TORRENT_SIZE_BYTES)

\* max(range(files.num_files()), key=files.file_size): the first index of
\* an entry no other entry is larger than.
largest_file_idx(ti) == CHOOSE i \in 1..Len(ti) : /\ \A j \in 1..Len(ti) : ~Gt(ti[j].size, ti[i].size)
                                                  /\ \A j \in 1..(i - 1) : Gt(ti[i].size, ti[j].size)

\* A loop that looks at no entry.
large_files_unchecked(ti, i) == ""

\* The loop of validate_torrent_files from entry i on: the extension it
\* returns an error for, "" if it ends without one.
RECURSIVE large_file_error(_, _)
large_file_error(ti, i) == IF i > Len(ti) THEN ""
                           ELSE IF Gt(ti[i].size, SubstantialSize) /\ lower(ti[i].ext) \notin ALLOWED_EXTENSIONS THEN ti[i].ext
                           ELSE large_file_error(ti, i + 1)

\* validate_torrent_files: "ok" for None, else the reason.
validate_torrent_files(ti) == IF Len(ti) = 0 THEN "no files"
                              ELSE IF large_file_error(ti, 1) # "" THEN "unsupported file type"
                              ELSE IF (\A i \in 1..Len(ti) : ~Gt(ti[i].size, SubstantialSize)) /\ lower(ti[largest_file_idx(ti)].ext) \notin ALLOWED_EXTENSIONS THEN "unsupported file type"
                              ELSE "ok"

\* A manifest to be checked.
InitPolicy == /\ is_shutting_down = FALSE
              /\ active_downloads = EmptyDict
              /\ persistence_file = Missing
              /\ loop_tasks = EmptyBag
              /\ user_data = [u \in Users |-> NoUserData]
              /\ torrents_dir = {}
              /\ phase = "running"
              /\ pending_write = <<>>
              /\ last \in {[op |-> "manifest", ti |-> ti] : ti \in Manifests}
              /\ TORRENT_SESSION = {}
              /\ worker = Idle
              /\ parts_files = {}
              /\ monotonic = 0
              /\ last_update_time = 0
              /\ transfer = NoTransfer
              /\ media_files = Library
              /\ ALLOWED_USER_IDS = {}
              /\ prompts = <<>>

\* The checks applied to the manifest.
policy_checked == /\ last.op = "manifest"
                  /\ last' = [op |-> "policy", ti |-> last.ti, size_exceeded |-> size_exceeded(last.ti), validation |-> validate_torrent_files(last.ti)]
                  /\ UNCHANGED <<is_shutting_down, active_downloads, persistence_file, loop_tasks, user_data, torrents_dir, phase, pending_write, TORRENT_SESSION, worker, parts_files, monotonic, last_update_time, transfer, media_files, ALLOWED_USER_IDS, prompts>>

\* Priorities by the extension as the manifest spells it.
priorities_as_spelled(ti, allowed_extensions) == [i \in 1..Len(ti) |-> IF ti[i].ext \in allowed_extensions THEN 1 ELSE 0]

\* The priorities loop of download_with_progress: 1 for an entry whose
\* lower-cased extension is in allowed_extensions, 0 for any other.
priorities(ti, allowed_extensions) == [i \in 1..Len(ti) |-> IF lower(ti[i].ext) \in allowed_extensions THEN 1 ELSE 0]

\* handle.prioritize_files(priorities) for the manifest, with the
\* allowlist download_task_wrapper passes.
prioritize_files == /\ last.op = "policy"
                    /\ last' = [op |-> "prioritize_files", ti |-> last.ti, validation |-> last.validation, priorities |-> priorities(last.ti, ALLOWED_EXTENSIONS)]
                    /\ UNCHANGED <<is_shutting_down, active_downloads, persistence_file, loop_tasks, user_data, torrents_dir, phase, pending_write, TORRENT_SESSION, worker, parts_files, monotonic, last_update_time, transfer, media_files, ALLOWED_USER_IDS, prompts>>

NextPolicy == policy_checked \/ prioritize_files

SpecPolicy == InitPolicy /\ [][NextPolicy]_vars

\* ------------------------------------------------------------ messages
\* A text is the sequence of its pieces: each character MarkdownV2 reserves
\* is a piece of its own, other pieces hold none of them.  The backtick and
\* the apostrophe are written by name.
Backtick == "backtick"

Apostrophe == "apostrophe"

Reserved == {"_", "*", "[", "]", "(", ")", "~", Backtick, ">", "#", "+", "-", "=", "|", "{", "}", ".", "!"}

Backslash == "\\"

\* escape_markdown: a backslash before every reserved character.
RECURSIVE escape_markdown(_)
escape_markdown(text) == IF text = <<>> THEN <<>>
                         ELSE (IF Head(text) \in Reserved THEN <<Backslash, Head(text)>> ELSE <<Head(text)>>) \o escape_markdown(Tail(text))

\* Telegram reading a MarkdownV2 text from piece i on, inside bold or not and
\* inside inline code or not: an escaped character is taken as it is, a star
\* and a backtick open and close their entity, any other reserved character outside code
\* is an error, and so is an entity left open.
RECURSIVE markdown_v2_parses(_, _, _, _)
markdown_v2_parses(text, i, bold, code) == IF i > Len(text) THEN ~bold /\ ~code
                                           ELSE IF text[i] = Backslash THEN i < Len(text) /\ markdown_v2_parses(text, i + 2, bold, code)
                                           ELSE IF text[i] = Backtick THEN markdown_v2_parses(text, i + 1, bold, ~code)
                                           ELSE IF code THEN markdown_v2_parses(text, i + 1, bold, code)
                                           ELSE IF text[i] = "*" THEN markdown_v2_parses(text, i + 1, ~bold, code)
                                           ELSE IF text[i] \in Reserved THEN FALSE
                                           ELSE markdown_v2_parses(text, i + 1, bold, code)

\* edit_text(text, parse_mode=MARKDOWN_V2): the message is shown if Telegram
\* can parse it, else the call raises BadRequest.
edit_text(text) == markdown_v2_parses(text, 1, FALSE, FALSE)

\* round(x, 2) of the float x = size_bytes / p, a quotient by a power of
\* two and so exact: h its hundredths rounded down, rest how what is left
\* compares with half a hundredth.  A tie goes to the even digit.
half_even(h, rest) == IF rest > 0 \/ (rest = 0 /\ h % 2 = 1) THEN h + 1 ELSE h

Compare(a, b) == IF a > b THEN 1 ELSE IF a = b THEN 0 ELSE -1

\* round(size_bytes / p, 2) as whole units and hundredths, for p bytes a unit.
Rounded(whole, hundredths) == IF hundredths = 100 THEN [whole |-> whole + 1, hundredths |-> 0] ELSE [whole |-> whole, hundredths |-> hundredths]

\* The float s of format_bytes as it is printed: at least one decimal.
FloatText(r) == <<ToString(r.whole), ".">> \o (IF r.hundredths % 10 = 0 THEN <<ToString(r.hundredths \div 10)>> ELSE IF r.hundredths < 10 THEN <<"0", ToString(r.hundredths)>> ELSE <<ToString(r.hundredths)>>)

\* format_bytes, for sizes below 1 TiB.  The hundredths of the bytes beyond
\* the whole GiB are counted in KiB, which keeps the numbers small.
format_bytes(size) == IF size = Size(0, 0) THEN <<"0B">>
                      ELSE IF size.g > 0
                           THEN LET x == (size.b \div 1024) * 100 + ((size.b % 1024) * 100) \div 1024
                                    y == ((size.b % 1024) * 100) % 1024
                                    m == x % 1048576
                                    rest == IF m > 524288 \/ (m = 524288 /\ y > 0) THEN 1 ELSE IF m = 524288 THEN 0 ELSE -1
                                IN FloatText(Rounded(size.g, half_even(x \div 1048576, rest))) \o <<" GB">>
                           ELSE LET i == IF size.b >= 1048576 THEN 2 ELSE IF size.b >= 1024 THEN 1 ELSE 0
                                    p == IF i = 2 THEN 1048576 ELSE IF i = 1 THEN 1024 ELSE 1
                                    r == (size.b % p) * 100
                                IN FloatText(Rounded(size.b \div p, half_even(r \div p, Compare(2 * (r % p), p)))) \o <<IF i = 2 THEN " MB" ELSE IF i = 1 THEN " KB" ELSE " B">>

\* error_msg of the size check.
size_error_msg(ti) == <<"This torrent is ", "*">> \o format_bytes(total_size(ti)) \o <<"*", ", which is larger than the ", "*", ToString(MAX_TORRENT_SIZE_GB), " GB", "*", " limit", ".">>

\* The extension validate_torrent_files names in its error.
unsupported_ext(ti) == IF large_file_error(ti, 1) # "" THEN large_file_error(ti, 1) ELSE ti[largest_file_idx(ti)].ext

ExtText(ext) == IF ext = ".exe" THEN <<".", "exe">> ELSE IF ext = ".mkv" THEN <<".", "mkv">> ELSE IF ext = ".MKV" THEN <<".", "MKV">> ELSE <<>>

\* error_msg of the file type check: "This torrent " and what
\* validate_torrent_files returned.
validation_error_msg(ti) == IF Len(ti) = 0 THEN <<"This torrent ", "the torrent contains no files", ".">>
                            ELSE <<"This torrent ", "contains an unsupported file type ", "(", Apostrophe>> \o ExtText(unsupported_ext(ti)) \o <<Apostrophe, ")", ".", " I can only download ", ".", "mkv and ", ".", "mp4 files", ".">>

SizeHeading == <<"X ", "*", "Size Limit Exceeded", "*", "\n\n">>

TypeHeading == <<"X ", "*", "Unsupported File Type", "*", "\n\n">>

\* confirmation_text: the heading, then the name, the file type and the
\* size, each escaped.
confirmation_text(ti) == <<"OK ", "*", "Validation Passed", "*", "\n\n", "*", "Name:", "*", " ">> \o escape_markdown(<<"Title ", "(", "2020", ")">>)
                         \o <<"\n", "*", "File Type:", "*", " ">> \o escape_markdown(<<"MKV">>)
                         \o <<"\n", "*", "Size:", "*", " ">> \o escape_markdown(format_bytes(total_size(ti)))
                         \o <<"\n\n", "Do you want to start this download?">>

\* --------------------------------------------------------- submissions
\* The handlers that analyse a link, with the manifest the link stands for.
\* A source is a link and its manifest: a magnet link carries the info-hash,
\* a .torrent file is saved under its info-hash, and the info-hash stands
\* for one manifest.
SubmitManifests == { <<[size |-> Size(0, 629145600), ext |-> ".mkv"]>>,
                     <<[size |-> Size(10, 0), ext |-> ".mkv"]>>,
                     <<[size |-> Size(10, 1), ext |-> ".mkv"]>>,
                     <<[size |-> Size(0, 52428800), ext |-> ".exe"], [size |-> Size(0, 629145600), ext |-> ".mkv"]>>,
                     <<>> }

SubmitSources == {[type |-> "magnet", value |-> [link |-> "magnet:?xt=urn:btih:", info_hash |-> ti], kind |-> "movie"] : ti \in SubmitManifests}
                 \cup {[type |-> "file", value |-> [link |-> ".torrents/", info_hash |-> ti], kind |-> "movie"] : ti \in {m \in SubmitManifests : Len(m) = 2 \/ (Len(m) = 1 /\ m[1].size # Size(10, 0))}}

\* What a handler did with a link: the manifest, the verdict, the text it
\* sent and whether the text was shown.
Analysed(op, u, c, src, verdict, text) == [op |-> op, user |-> u, chat |-> c, type |-> src.type, ti |-> src.value.info_hash,
                                           verdict |-> verdict, text |-> text, shown |-> edit_text(text)]

\* Steps 4 to 9 of handle_message for a magnet link or a .torrent URL whose
\* content was obtained.  A rejection edits the progress message and then
\* removes the .torrent file; if the edit raises, the handler ends there.
handle_message_analysis(u, c, src) == LET ti == src.value.info_hash
                                          written == IF src.type = "file" THEN torrents_dir \cup {src.value} ELSE torrents_dir
                                          verdict == IF size_exceeded(ti) THEN "size" ELSE IF validate_torrent_files(ti) # "ok" THEN "type" ELSE "accepted"
                                          text == IF verdict = "size" THEN SizeHeading \o size_error_msg(ti)
                                                  ELSE IF verdict = "type" THEN TypeHeading \o validation_error_msg(ti)
                                                  ELSE confirmation_text(ti)
                                      IN /\ phase = "running"
                                         /\ str(PyInt(c)) \notin DOMAIN active_downloads
                                         /\ torrents_dir' = IF verdict # "accepted" /\ edit_text(text) THEN written \ {src.value} ELSE written
                                         /\ user_data' = IF verdict = "accepted" /\ edit_text(text) THEN [user_data EXCEPT ![u].pending_torrent = pending_torrent(src)] ELSE user_data
                                         /\ last' = Analysed("handle_message", u, c, src, verdict, text)
                                         /\ UNCHANGED <<HandlerVars, active_downloads, persistence_file, loop_tasks>>

\* button_handler, select_magnet_N, with the metadata obtained: the same
\* checks, the error text escaped.
select_magnet_analysis(u, c, src) == LET ti == src.value.info_hash
                                         verdict == IF size_exceeded(ti) THEN "size" ELSE IF validate_torrent_files(ti) # "ok" THEN "type" ELSE "accepted"
                                         text == IF verdict = "size" THEN SizeHeading \o escape_markdown(size_error_msg(ti))
                                                 ELSE IF verdict = "type" THEN TypeHeading \o escape_markdown(validation_error_msg(ti))
                                                 ELSE confirmation_text(ti)
                                     IN /\ phase = "running"
                                        /\ user_data[u].temp_magnet_choices
                                        /\ src.type = "magnet"
                                        /\ user_data' = [user_data EXCEPT ![u].temp_magnet_choices = FALSE,
                                                                          ![u].pending_torrent = IF verdict = "accepted" /\ edit_text(text) THEN pending_torrent(src) ELSE @]
                                        /\ last' = Analysed("select_magnet", u, c, src, verdict, text)
                                        /\ UNCHANGED <<HandlerVars, active_downloads, persistence_file, loop_tasks, torrents_dir>>

NextSubmit == \E u \in Users, c \in Chats : \/ \E src \in SubmitSources : handle_message_analysis(u, c, src)
                                            \/ \E src \in SubmitSources : select_magnet_analysis(u, c, src)
                                            \/ handle_message_choices(u, c)
                                            \/ cancel_operation(u, c)
                                            \/ confirm_download(u, c)

SpecSubmit == Init /\ [][NextSubmit]_vars

\* ------------------------------------------------------ metadata probe
\* _blocking_fetch_metadata in its worker thread.  The application handles
\* one update at a time and the handler awaits the thread, so one call is
\* under way at most.  Time is counted in the half seconds of time.sleep(0.5).
timeout_seconds == 30

Magnets == {"magnet:?xt=urn:btih:a", "magnet:?xt=urn:btih:b"}

\* ses.add_torrent(params)
add_torrent(ses, magnet) == ses \cup {magnet}

\* A removal that leaves the session as it is.
remove_nothing(ses, handle) == ses

\* ses.remove_torrent(handle)
remove_torrent(ses, handle) == ses \ {handle}

\* handle.is_valid()
is_valid(ses, handle) == handle \in ses

\* The part reached on timeout or error: the handle is removed if it is
\* valid, None is returned.
returns_None(ses, handle) == IF is_valid(ses, handle) THEN remove_torrent(ses, handle) ELSE ses

ProbeVars == <<is_shutting_down, active_downloads, persistence_file, loop_tasks, user_data, torrents_dir, phase, pending_write, parts_files, monotonic, last_update_time, transfer, media_files, ALLOWED_USER_IDS, prompts>>

ProbeEvent(how) == [NoEvent EXCEPT !.op = "fetch_metadata", !.outcome = how]

\* The call up to the loop: the magnet is parsed and added to the session.
fetch_called(magnet) == /\ phase = "running"
                        /\ worker.pc \in {"idle", "returned"}
                        /\ TORRENT_SESSION' = add_torrent(TORRENT_SESSION, magnet)
                        /\ worker' = [pc |-> "polling", magnet |-> magnet, elapsed |-> 0, result |-> "none"]
                        /\ last' = ProbeEvent("added")
                        /\ UNCHANGED ProbeVars

\* lt.parse_magnet_uri raises: there is no handle, None is returned.
fetch_parse_raises(magnet) == /\ phase = "running"
                              /\ worker.pc \in {"idle", "returned"}
                              /\ worker' = [pc |-> "returned", magnet |-> magnet, elapsed |-> 0, result |-> "none"]
                              /\ last' = ProbeEvent("parse_error")
                              /\ UNCHANGED <<ProbeVars, TORRENT_SESSION>>

\* One turn of the loop without metadata: time.sleep(0.5), which takes a
\* half second or more.
worker_sleeps(dt) == /\ worker.pc = "polling"
                     /\ worker.elapsed < 2 * timeout_seconds
                     /\ worker' = [worker EXCEPT !.elapsed = @ + dt]
                     /\ last' = ProbeEvent("sleep")
                     /\ UNCHANGED <<ProbeVars, TORRENT_SESSION>>

\* The handle has metadata: it is bencoded, the handle is removed.
worker_has_metadata == /\ worker.pc = "polling"
                       /\ worker.elapsed < 2 * timeout_seconds
                       /\ TORRENT_SESSION' = remove_torrent(TORRENT_SESSION, worker.magnet)
                       /\ worker' = [worker EXCEPT !.pc = "returned", !.result = "metadata"]
                       /\ last' = ProbeEvent("metadata")
                       /\ UNCHANGED ProbeVars

\* An exception inside the loop is caught and logged.
worker_raises == /\ worker.pc = "polling"
                 /\ worker.elapsed < 2 * timeout_seconds
                 /\ TORRENT_SESSION' = returns_None(TORRENT_SESSION, worker.magnet)
                 /\ worker' = [worker EXCEPT !.pc = "returned", !.result = "none"]
                 /\ last' = ProbeEvent("exception")
                 /\ UNCHANGED ProbeVars

\* The loop ends after timeout_seconds.
worker_times_out == /\ worker.pc = "polling"
                    /\ worker.elapsed >= 2 * timeout_seconds
                    /\ TORRENT_SESSION' = returns_None(TORRENT_SESSION, worker.magnet)
                    /\ worker' = [worker EXCEPT !.pc = "returned", !.result = "none"]
                    /\ last' = ProbeEvent("timeout")
                    /\ UNCHANGED ProbeVars

NextProbe == \/ \E magnet \in Magnets : fetch_called(magnet)
             \/ \E magnet \in Magnets : fetch_parse_raises(magnet)
             \/ \E dt \in {1, 2} : worker_sleeps(dt)
             \/ worker_has_metadata
             \/ worker_raises
             \/ worker_times_out

SpecProbe == Init /\ [][NextProbe]_vars

\* ------------------------------------------------------- metadata waits
\* The two waits for metadata side by side: the probe in its worker thread
\* and the wait at the start of a magnet transfer.  Nobody cancels.  The
\* event loop and the thread go on running, so a sleep that is due returns;
\* whether a peer ever supplies metadata is not up to the program.  A
\* handler runs when no other handler awaits the worker thread, and
\* handle_message stores a pending torrent after a probe that got metadata.
MagnetSources == {src \in Sources : src.type = "magnet"}

NextWait == \/ \E magnet \in Magnets : fetch_called(magnet)
            \/ \E dt \in {1, 2} : worker_sleeps(dt)
            \/ worker_has_metadata
            \/ worker_times_out
            \/ \E u \in Users, c \in Chats, src \in MagnetSources : worker.pc = "returned" /\ worker.result = "metadata" /\ handle_message(u, c, src)
            \/ \E u \in Users, c \in Chats : worker.pc # "polling" /\ confirm_download(u, c)
            \/ \E h \in Handles : task_start(h)
            \/ \E h \in Handles : meta_wait_sleeps(h)
            \/ \E h \in Handles : meta_wait_wakes(h)

SpecWait == /\ Init
            /\ [][NextWait]_vars
            /\ WF_vars(\E dt \in {1, 2} : worker_sleeps(dt))
            /\ WF_vars(worker_times_out)
            /\ WF_vars(\E h \in Handles : task_start(h))
            /\ WF_vars(\E h \in Handles : meta_wait_sleeps(h))

\* ------------------------------------------------- transfers side by side
\* Transfers of several chats with their partial data.  Two of the sources
\* are movies and share the save directory, the third goes elsewhere.
ParallelSources == Sources \cup {[type |-> "magnet", value |-> "magnet:?xt=urn:btih:b", kind |-> "movie"]}

\* libtorrent writes the pieces it holds for files that are not downloaded
\* (priority 0) to the .parts file of the torrent.
parts_written(h) == /\ h.task.pc \in {"callback", "tick"}
                    /\ parts_files' = parts_files \cup {parts_file(h.task)}
                    /\ last' = Quiet
                    /\ UNCHANGED <<TaskVars, active_downloads, persistence_file, loop_tasks, torrents_dir>>

NextCancel == \/ \E u \in Users, c \in Chats, src \in ParallelSources : handle_message(u, c, src)
              \/ \E u \in Users, c \in Chats : confirm_download(u, c)
              \/ \E c \in Chats : cancel_command(c)
              \/ \E h \in Handles : task_start(h)
              \/ \E h \in Handles : meta_wait_wakes(h)
              \/ \E h \in Handles : callback_returns(h, FALSE)
              \/ \E h \in Handles : tick_wakes(h)
              \/ \E h \in Handles : parts_written(h)
              \/ \E h \in Handles : cancel_observed(h)
              \/ \E h \in Handles : cancel_unstarted(h)
              \/ \E h \in Handles : cancel_notify_returns(h)

SpecCancel == Init /\ [][NextCancel]_vars

\* ------------------------------------------------------- failing writes
\* Downloads of .torrent files from the confirmation to the Success message
\* on a file system whose writes can fail.
\* The Success message has been sent: the finally block, its save failing
\* or not.
final_notify_returns_save(h, write) == Runs(h, "final_notify") /\ FinishSave(h, "final_notify", "none", "success", "none", write)

NextSave == \/ \E u \in Users, c \in Chats, src \in Sources : handle_message(u, c, src)
            \/ \E u \in Users, c \in Chats, write \in Writes : confirm_download_save(u, c, write)
            \/ \E h \in Handles : task_start(h)
            \/ \E h \in Handles : meta_wait_wakes(h)
            \/ \E h \in Handles : callback_returns(h, TRUE)
            \/ \E h \in Handles : final_callback_returns(h)
            \/ \E h \in Handles : flush_done(h)
            \/ \E h \in Handles : post_processing_done(h)
            \/ \E h \in Handles, write \in Writes : final_notify_returns_save(h, write)

SpecSave == Init /\ [][NextSave]_vars

\* ---------------------------------------------------- progress messages
\* The main loop of download_with_progress with report_progress as its
\* status callback, and the clock report_progress reads.
MaxClock == 20

\* The seconds between two edits, the seconds of a sleep of the loop.
throttle_seconds == 5

tick_seconds == 5

\* time.monotonic() when the task starts: the seconds since the boot.
Boot == 0..(throttle_seconds + 2)

\* An edit is a round trip to the Bot API: it takes time.
EditSeconds == 1..(throttle_seconds + 1)

\* asyncio.sleep(5) returns after 5 seconds or later.
SleepSeconds == tick_seconds..(tick_seconds + 1)

\* The states of a torrent_status the loop tells apart.
Completed == {"finished", "seeding"}

States == {"downloading"} \cup Completed

\* What edit_message_text does: the message is edited, BadRequest, another
\* error of the library.
Answers == {"ok", "bad_request", "raises"}

\* A callback that edits on every call.
always_due(current_time, last_time) == TRUE

\* The throttle of report_progress.
due(current_time, last_time) == current_time - last_time > throttle_seconds

\* The message of the chat and the times of its edits after report_progress.
reported(status, by, answer) ==
    IF due(monotonic, last_update_time) /\ answer = "ok"
    THEN [transfer EXCEPT !.state = status, !.message = status, !.previous = transfer.edited, !.edited = monotonic, !.by = by]
    ELSE [transfer EXCEPT !.state = status]

\* One call of the status callback; pc is where the loop goes on.
report_progress(status, by, answer, seconds, pc) ==
    LET edits == due(monotonic, last_update_time)
    IN /\ edits => monotonic + seconds <= MaxClock
       /\ last_update_time' = IF edits THEN monotonic ELSE last_update_time
       /\ monotonic' = IF edits THEN monotonic + seconds ELSE monotonic
       /\ transfer' = [reported(status, by, answer) EXCEPT !.pc = IF edits /\ answer = "raises" THEN "raised" ELSE pc]
       /\ UNCHANGED <<is_shutting_down, active_downloads, persistence_file, loop_tasks, user_data, torrents_dir, phase, pending_write, last, TORRENT_SESSION, worker, parts_files, media_files, ALLOWED_USER_IDS, prompts>>

InitProgress == /\ is_shutting_down = FALSE
                /\ active_downloads = EmptyDict
                /\ persistence_file = Missing
                /\ loop_tasks = EmptyBag
                /\ user_data = [u \in Users |-> NoUserData]
                /\ torrents_dir = {}
                /\ phase = "running"
                /\ pending_write = <<>>
                /\ last = NoEvent
                /\ TORRENT_SESSION = {}
                /\ worker = Idle
                /\ parts_files = {}
                /\ monotonic \in Boot
                /\ last_update_time = 0
                /\ transfer = [NoTransfer EXCEPT !.pc = "loop", !.message = "queued"]
                /\ media_files = Library
                /\ ALLOWED_USER_IDS = {}
                /\ prompts = <<>>

\* s = handle.status(); await status_callback(s); break when it is complete.
loop_callback(status, answer, seconds) ==
    /\ transfer.pc = "loop"
    /\ report_progress(status, "loop", answer, seconds, IF status \in Completed THEN "after_loop" ELSE "sleep")

\* await asyncio.sleep(5) returns.
loop_sleep_returns(seconds) ==
    /\ transfer.pc = "sleep"
    /\ monotonic + seconds <= MaxClock
    /\ monotonic' = monotonic + seconds
    /\ transfer' = [transfer EXCEPT !.pc = "loop"]
    /\ UNCHANGED <<is_shutting_down, active_downloads, persistence_file, loop_tasks, user_data, torrents_dir, phase, pending_write, last, TORRENT_SESSION, worker, parts_files, last_update_time, media_files, ALLOWED_USER_IDS, prompts>>

\* await asyncio.sleep(5) raises CancelledError.
loop_sleep_cancelled ==
    /\ transfer.pc = "sleep"
    /\ transfer' = [transfer EXCEPT !.pc = "cancelled"]
    /\ UNCHANGED <<is_shutting_down, active_downloads, persistence_file, loop_tasks, user_data, torrents_dir, phase, pending_write, last, TORRENT_SESSION, worker, parts_files, monotonic, last_update_time, media_files, ALLOWED_USER_IDS, prompts>>

\* await status_callback(handle.status()) after the loop.
last_callback(status, answer, seconds) ==
    /\ transfer.pc = "after_loop"
    /\ report_progress(status, "last", answer, seconds, "pause")

\* ses.pause(); await asyncio.sleep(1); return True, ti.
session_paused ==
    /\ transfer.pc = "pause"
    /\ monotonic + 1 <= MaxClock
    /\ monotonic' = monotonic + 1
    /\ transfer' = [transfer EXCEPT !.pc = "returned"]
    /\ UNCHANGED <<is_shutting_down, active_downloads, persistence_file, loop_tasks, user_data, torrents_dir, phase, pending_write, last, TORRENT_SESSION, worker, parts_files, last_update_time, media_files, ALLOWED_USER_IDS, prompts>>

NextProgress == \/ \E status \in States, answer \in Answers, seconds \in EditSeconds : loop_callback(status, answer, seconds)
                \/ \E seconds \in SleepSeconds : loop_sleep_returns(seconds)
                \/ loop_sleep_cancelled
                \/ \E status \in Completed, answer \in Answers, seconds \in EditSeconds : last_callback(status, answer, seconds)
                \/ session_paused

SpecProgress == InitProgress /\ [][NextProgress]_vars

\* ------------------------------------------------------- repeated saves
\* save_active_downloads called again and again on an active set nothing
\* changes, over a file of any content.
MaxSaves == 2

FileTexts == {Missing} \cup ForeignTexts \cup {Serialization(active) : active \in StoreSets}

InitResave == /\ is_shutting_down = FALSE
              /\ active_downloads \in StoreSets
              /\ persistence_file \in FileTexts
              /\ loop_tasks = EmptyBag
              /\ user_data = [u \in Users |-> NoUserData]
              /\ torrents_dir = {}
              /\ phase = "running"
              /\ pending_write = <<>>
              /\ last = [op |-> "none", calls |-> 0, before |-> <<>>]
              /\ TORRENT_SESSION = {}
              /\ worker = Idle
              /\ parts_files = {}
              /\ monotonic = 0
              /\ last_update_time = 0
              /\ transfer = NoTransfer
              /\ media_files = Library
              /\ ALLOWED_USER_IDS = {}
              /\ prompts = <<>>

\* save_active_downloads(file_path, active_downloads)
save_called == /\ last.calls < MaxSaves
               /\ persistence_file' = saved_file(persistence_file, active_downloads, "written")
               /\ last' = [op |-> "save", calls |-> last.calls + 1, before |-> persistence_file]
               /\ UNCHANGED <<StoreVars, active_downloads, phase, pending_write>>

NextResave == save_called

SpecResave == InitResave /\ [][NextResave]_vars

\* ------------------------------------------------------------ size texts
\* format_bytes on byte counts at and around the powers of 1024.
Around(n) == (n - 8)..(n + 8)

FormatSizes == {Size(0, b) : b \in (0..8) \cup Around(1024) \cup Around(1048576) \cup ((GiB - 8)..(GiB - 1))} \cup {Size(g, b) : g \in 1..2, b \in 0..8}

InitFormat == /\ is_shutting_down = FALSE
              /\ active_downloads = EmptyDict
              /\ persistence_file = Missing
              /\ loop_tasks = EmptyBag
              /\ user_data = [u \in Users |-> NoUserData]
              /\ torrents_dir = {}
              /\ phase = "running"
              /\ pending_write = <<>>
              /\ last \in {[op |-> "size", size_bytes |-> size, text |-> <<>>] : size \in FormatSizes}
              /\ TORRENT_SESSION = {}
              /\ worker = Idle
              /\ parts_files = {}
              /\ monotonic = 0
              /\ last_update_time = 0
              /\ transfer = NoTransfer
              /\ media_files = Library
              /\ ALLOWED_USER_IDS = {}
              /\ prompts = <<>>

\* format_bytes(size_bytes)
size_formatted == /\ last.op = "size"
                  /\ last' = [last EXCEPT !.op = "formatted", !.text = format_bytes(last.size_bytes)]
                  /\ UNCHANGED <<is_shutting_down, active_downloads, persistence_file, loop_tasks, user_data, torrents_dir, phase, pending_write, TORRENT_SESSION, worker, parts_files, monotonic, last_update_time, transfer, media_files, ALLOWED_USER_IDS, prompts>>

NextFormat == size_formatted

SpecFormat == InitFormat /\ [][NextFormat]_vars

\* The unit a text of format_bytes ends with.
unit_of(text) == text[Len(text)]

\* ------------------------------------------- commands and media deletion
\* Every registered handler, for users on and off the allowed list, with the
\* delete flow; the downloads of one chat up to their cancellation.
CommandChats == {1}

\* allowed_user_ids of config.ini: empty, the user, somebody else.
AllowedLists == {{}, {1}, {NumUsers + 1}}

is_user_authorized(u) == ALLOWED_USER_IDS = {} \/ u \in ALLOWED_USER_IDS

\* What parse_torrent_name makes of a text sent while a title is awaited.
DeleteInputs == {[kind |-> "movie", title |-> t] : t \in {"A (2020)", "B (2021)", "C (2022)"}} \cup {[kind |-> "unknown", title |-> ""]}

\* potential_files of handle_delete_input.
potential_files(input) == {f \in media_files : input.kind = "movie" /\ f.title = input.title}

\* The handlers that begin with is_user_authorized.
GuardedHandlers == {"help_command", "cancel_command", "delete_command", "handle_delete_input", "plex_status_command", "plex_restart_command", "handle_message", "button_handler"}

\* An update as its handler has dealt with it: whether a message was sent,
\* whether a media file was removed.
Update(op, u, c, reply, removed) == [op |-> op, user |-> u, chat |-> c, reply |-> reply, removed |-> removed]

InitCommands == /\ is_shutting_down = FALSE
                /\ active_downloads = EmptyDict
                /\ persistence_file = Missing
                /\ loop_tasks = EmptyBag
                /\ user_data = [u \in Users |-> NoUserData]
                /\ torrents_dir = {}
                /\ phase = "running"
                /\ pending_write = <<>>
                /\ last = NoEvent
                /\ TORRENT_SESSION = {}
                /\ worker = Idle
                /\ parts_files = {}
                /\ monotonic = 0
                /\ last_update_time = 0
                /\ transfer = NoTransfer
                /\ media_files = Library
                /\ ALLOWED_USER_IDS \in AllowedLists
                /\ prompts = <<>>

\* start_command: the welcome message.
start_command(u, c) == /\ phase = "running"
                       /\ last' = Update("start_command", u, c, TRUE, FALSE)
                       /\ UNCHANGED <<HandlerVars, active_downloads, persistence_file, loop_tasks, user_data, torrents_dir>>

\* A handler whose is_user_authorized returns False: it returns.
access_denied(u, c, op) == /\ phase = "running"
                           /\ ~is_user_authorized(u)
                           /\ last' = Update(op, u, c, FALSE, FALSE)
                           /\ UNCHANGED <<HandlerVars, active_downloads, persistence_file, loop_tasks, user_data, torrents_dir>>

\* help_command, plex_status_command, plex_restart_command: a reply.
reply_command(u, c, op) == /\ phase = "running"
                           /\ is_user_authorized(u)
                           /\ last' = Update(op, u, c, TRUE, FALSE)
                           /\ UNCHANGED <<HandlerVars, active_downloads, persistence_file, loop_tasks, user_data, torrents_dir>>

\* delete_command: refused while the chat has a record, else the user is
\* asked for a title.
delete_command(u, c) == /\ phase = "running"
                        /\ is_user_authorized(u)
                        /\ user_data' = IF str(PyInt(c)) \in DOMAIN active_downloads THEN user_data ELSE [user_data EXCEPT ![u].waiting_for_delete_input = TRUE]
                        /\ last' = Update("delete_command", u, c, TRUE, FALSE)
                        /\ UNCHANGED <<HandlerVars, active_downloads, persistence_file, loop_tasks, torrents_dir>>

\* WaitingForDeleteInputFilter.filter
waiting_for_delete_input_filter(u) == user_data[u].waiting_for_delete_input

\* A handler that pops the flag whatever the text is.
ends_wait_always(input) == TRUE

\* handle_delete_input goes past its early return: media_type is not
\* 'unknown'.
ends_wait(input) == input.kind # "unknown"

\* handle_delete_input: a text that is no title leaves the user waiting; a
\* title ends the wait, and one file found for it becomes the pending
\* deletion, several files leave None.
handle_delete_input(u, c, input) ==
    /\ phase = "running"
    /\ waiting_for_delete_input_filter(u)
    /\ is_user_authorized(u)
    /\ user_data' = IF ~ends_wait(input) THEN user_data
                    ELSE [user_data EXCEPT ![u].waiting_for_delete_input = FALSE,
                                           ![u].pending_delete_info = IF Cardinality(potential_files(input)) > 1 THEN None
                                                                      ELSE IF potential_files(input) # {} THEN CHOOSE f \in potential_files(input) : TRUE
                                                                      ELSE @]
    /\ last' = [op |-> "handle_delete_input", user |-> u, chat |-> c, reply |-> TRUE, removed |-> FALSE, kind |-> input.kind]
    /\ UNCHANGED <<HandlerVars, active_downloads, persistence_file, loop_tasks, torrents_dir>>

\* button_handler, confirm_delete and cancel_delete_operation: without a
\* pending deletion the request has expired; else it is popped, and
\* confirm_delete removes the file if it is there.
delete_button(u, c, button) ==
    /\ phase = "running"
    /\ is_user_authorized(u)
    /\ LET info == user_data[u].pending_delete_info
           pending == info \notin {Absent, None}
           removes == pending /\ button = "confirm_delete" /\ info \in media_files
       IN /\ user_data' = IF pending THEN [user_data EXCEPT ![u].pending_delete_info = Absent] ELSE user_data
          /\ media_files' = IF removes THEN media_files \ {info} ELSE media_files
          /\ last' = Update(button, u, c, TRUE, removes)
    /\ UNCHANGED <<is_shutting_down, phase, pending_write, TORRENT_SESSION, worker, parts_files, monotonic, last_update_time, transfer, ALLOWED_USER_IDS, active_downloads, persistence_file, loop_tasks, torrents_dir, prompts>>

\* A text that is no command: handle_delete_input is registered before
\* handle_message and takes it while its filter passes.
text_to_handle_message(u) == is_user_authorized(u) /\ ~waiting_for_delete_input_filter(u)

NextCommands == \/ \E u \in Users, c \in CommandChats : start_command(u, c)
                \/ \E u \in Users, c \in CommandChats, op \in GuardedHandlers : access_denied(u, c, op)
                \/ \E u \in Users, c \in CommandChats, op \in {"help_command", "plex_status_command", "plex_restart_command"} : reply_command(u, c, op)
                \/ \E u \in Users, c \in CommandChats : delete_command(u, c)
                \/ \E u \in Users, c \in CommandChats, input \in DeleteInputs : handle_delete_input(u, c, input)
                \/ \E u \in Users, c \in CommandChats, button \in {"confirm_delete", "cancel_delete_operation"} : delete_button(u, c, button)
                \/ \E u \in Users, c \in CommandChats, src \in Sources : text_to_handle_message(u) /\ handle_message(u, c, src)
                \/ \E u \in Users, c \in CommandChats : text_to_handle_message(u) /\ handle_message_refused(u, c)
                \/ \E u \in Users, c \in CommandChats : is_user_authorized(u) /\ confirm_download(u, c)
                \/ \E u \in Users, c \in CommandChats : is_user_authorized(u) /\ cancel_operation(u, c)
                \/ \E u \in Users, c \in CommandChats : is_user_authorized(u) /\ cancel_command(c)
                \/ \E u \in Users, c \in CommandChats : is_user_authorized(u) /\ cancel_command_idle(c)
                \/ \E h \in Handles : task_start(h)
                \/ \E h \in Handles : cancel_observed(h)
                \/ \E h \in Handles : cancel_notify_returns(h)

SpecCommands == InitCommands /\ [][NextCommands]_vars

\* ---------------------------------------------- confirmation prompts
\* The prompts one user can have open.
MaxPrompts == 3

\* context.user_data['pending_torrent'] = {...}: the torrent and the id of
\* the prompt message that describes it.
pending_of_prompt(src, m) == [type |-> src.type, value |-> src.value, kind |-> src.kind, original_message_id |-> m]

\* The torrent a pending torrent or a source dict names.
torrent_of(p) == [type |-> p.type, value |-> p.value, kind |-> p.kind]

\* download_data of button_handler with its message_id.
download_data_of(p, c) == [source_dict |-> p, chat_id |-> c, message_id |-> p.original_message_id, save_path |-> final_save_path(p.kind)]

\* The update a prompt handler has handled: m is the message it sent or the
\* message whose button was pressed.
PromptUpdate(op, u, m) == [op |-> op, user |-> u, message |-> m]

\* query.edit_message_text(...) without reply_markup: the buttons go.
edit_message_text(m) == [prompts EXCEPT ![m].buttons = FALSE]

InitPrompts == /\ is_shutting_down = FALSE
               /\ active_downloads = EmptyDict
               /\ persistence_file = Missing
               /\ loop_tasks = EmptyBag
               /\ user_data = [u \in Users |-> NoUserData]
               /\ torrents_dir = {}
               /\ phase = "running"
               /\ pending_write = FALSE
               /\ last = PromptUpdate("none", 0, 0)
               /\ TORRENT_SESSION = Idle
               /\ worker = "idle"
               /\ parts_files = {}
               /\ monotonic = 0
               /\ last_update_time = 0
               /\ transfer = NoTransfer
               /\ media_files = Library
               /\ ALLOWED_USER_IDS = {}
               /\ prompts = <<>>

\* handle_message, accepted: the prompt is sent with its two buttons and the
\* pending torrent of the user is set to the torrent of this prompt.
handle_message_prompt(u, c, src) ==
    /\ str(PyInt(c)) \notin DOMAIN active_downloads
    /\ Len(prompts) < MaxPrompts
    /\ prompts' = Append(prompts, [chat |-> c, source |-> src, buttons |-> TRUE])
    /\ user_data' = [user_data EXCEPT ![u].pending_torrent = pending_of_prompt(src, Len(prompts) + 1)]
    /\ torrents_dir' = IF src.type = "file" THEN torrents_dir \cup {src.value} ELSE torrents_dir
    /\ last' = PromptUpdate("handle_message", u, Len(prompts) + 1)
    /\ UNCHANGED <<is_shutting_down, active_downloads, persistence_file, loop_tasks, phase, pending_write, TORRENT_SESSION, worker, parts_files, monotonic, last_update_time, transfer, media_files, ALLOWED_USER_IDS>>

\* button_handler, a button of prompt m pressed while user_data holds no
\* pending torrent: the message is edited to the expiry text.
prompt_expired(u, m) ==
    /\ m \in DOMAIN prompts
    /\ prompts[m].buttons
    /\ user_data[u].pending_torrent = NoPending
    /\ prompts' = edit_message_text(m)
    /\ last' = PromptUpdate("button_expired", u, m)
    /\ UNCHANGED <<is_shutting_down, active_downloads, persistence_file, loop_tasks, user_data, torrents_dir, phase, pending_write, TORRENT_SESSION, worker, parts_files, monotonic, last_update_time, transfer, media_files, ALLOWED_USER_IDS>>

\* button_handler, cancel_operation pressed on prompt m.
prompt_cancelled(u, m) ==
    /\ m \in DOMAIN prompts
    /\ prompts[m].buttons
    /\ user_data[u].pending_torrent # NoPending
    /\ user_data' = [user_data EXCEPT ![u] = popped(@)]
    /\ prompts' = edit_message_text(m)
    /\ last' = PromptUpdate("cancel_operation", u, m)
    /\ UNCHANGED <<is_shutting_down, active_downloads, persistence_file, loop_tasks, torrents_dir, phase, pending_write, TORRENT_SESSION, worker, parts_files, monotonic, last_update_time, transfer, media_files, ALLOWED_USER_IDS>>

\* button_handler, confirm_download pressed on prompt m: whatever pending
\* torrent user_data holds is popped and started in the chat of the message.
prompt_confirmed(u, m) ==
    /\ m \in DOMAIN prompts
    /\ prompts[m].buttons
    /\ user_data[u].pending_torrent # NoPending
    /\ LET c == prompts[m].chat
           d == download_data_of(user_data[u].pending_torrent, c)
           task == create_task(d, is_shutting_down)
           act == DictSet(active_downloads, record_key(c), with_task(d, task))
       IN /\ active_downloads' = act
          /\ loop_tasks' = loop_tasks (+) Replaced(record_key(c))
          /\ persistence_file' = saved_file(persistence_file, act, "written")
    /\ user_data' = [user_data EXCEPT ![u] = popped(@)]
    /\ prompts' = edit_message_text(m)
    /\ last' = PromptUpdate("confirm_download", u, m)
    /\ UNCHANGED <<is_shutting_down, torrents_dir, phase, pending_write, TORRENT_SESSION, worker, parts_files, monotonic, last_update_time, transfer, media_files, ALLOWED_USER_IDS>>

NextPrompts == \/ \E u \in Users, c \in Chats, src \in Sources : handle_message_prompt(u, c, src)
               \/ \E u \in Users, m \in 1..MaxPrompts : prompt_expired(u, m)
               \/ \E u \in Users, m \in 1..MaxPrompts : prompt_cancelled(u, m)
               \/ \E u \in Users, m \in 1..MaxPrompts : prompt_confirmed(u, m)

SpecPrompts == InitPrompts /\ [][NextPrompts]_vars

\* ------------------------------------------------------------- properties
ChatKey(c) == str(PyInt(c))

\* The active set without the task objects.
Stored(active) == [k \in DOMAIN active |-> serializable_data(active[k])]

\* C1: at every instant at most one download task that is not done exists
\* per chat id.
C1_OneTaskPerChat == \A c \in Chats : LiveTasks(c) <= 1

\* C2: a user cancellation observed with the flag clear at the metadata
\* wait, the tick or an awaited progress callback removes the torrent with
\* its data, and when the cancelled task has ended the chat has no record in
\* the active set nor in the persistence file.
C2_UserCancelDeletes == /\ (last.op = "cancel_observed" /\ last.by = "user" /\ ~last.flag /\ last.point \in {"meta_wait", "tick", "callback", "final_callback"}) => last.removal = "delete"
                        /\ (last.op = "task_end" /\ last.outcome = "user_cancelled") => (ChatKey(last.chat) \notin DOMAIN active_downloads /\ ChatKey(last.chat) \notin DOMAIN load_active_downloads(persistence_file).items)

\* C3: a task that observes its cancellation while the flag is set makes no
\* removal with data deletion (the removal of the guarded sleeps is the
\* plain one), leaves the active set, the persistence file and the .torrent
\* files as they are, and ends cancelled instead of going on to the
\* "Cancelled" message.
C3_ShutdownPreserves == [][/\ (last'.op = "cancel_observed" => ~last'.flag)
                           /\ (last'.op = "task_end" /\ last'.outcome = "cancelled" /\ last'.flag) => /\ last'.removal # "delete"
                                                                                                      /\ last'.point \in GuardedSleeps => last'.removal = "keep"
                                                                                                      /\ Stored(active_downloads') = Stored(active_downloads)
                                                                                                      /\ persistence_file' = persistence_file
                                                                                                      /\ torrents_dir' = torrents_dir]_vars

C3_Witness == /\ last.op = "task_end" /\ last.outcome = "cancelled" /\ last.flag
              /\ last.point = "tick" /\ last.removal = "keep"
              /\ ChatKey(last.chat) \in DOMAIN active_downloads
              /\ active_downloads[ChatKey(last.chat)].source_dict.type = "file"
              /\ active_downloads[ChatKey(last.chat)].source_dict.value \in torrents_dir
              /\ ChatKey(last.chat) \in DOMAIN load_active_downloads(persistence_file).items

\* C4: post_shutdown sets the flag before it cancels: a task it has
\* cancelled is never there with the flag clear, and no cancellation it
\* requested is observed with the flag clear or removes data.
C4_FlagBeforeCancel == /\ \A h \in Held \cup Loose : h.task.cancel = "shutdown" => is_shutting_down
                       /\ last.by = "shutdown" => (last.flag /\ last.removal # "delete")

C4_Witness == /\ last.op = "task_end" /\ last.by = "shutdown" /\ last.point \in GuardedSleeps
              /\ \E h \in Held : h.task.cancel = "shutdown"

\* C5: at the guarded sleeps the removal made on cancellation follows the
\* flag as it is when the cancellation is observed: every task was created
\* with the flag clear, and one cancelled with the flag set keeps its data.
C5_LiveFlag == /\ \A h \in Held \cup Loose : ~h.task.flag_at_start
               /\ (last.by # "none" /\ last.point \in GuardedSleeps) => last.removal = (IF last.flag THEN "keep" ELSE "delete")

C5_Witness == /\ last.op = "task_end" /\ last.point = "meta_wait" /\ last.flag /\ last.removal = "keep"
              /\ ChatKey(last.chat) \in DOMAIN active_downloads
              /\ ~active_downloads[ChatKey(last.chat)].task.flag_at_start

C9_ResumedFromFile == last.op = "post_init" => LET loaded == load_active_downloads(persistence_file).items
                                               IN /\ DOMAIN active_downloads = DOMAIN loaded
                                                  /\ \A k \in DOMAIN loaded : /\ Stored(active_downloads)[k] = loaded[k]
                                                                              /\ active_downloads[k].task.pc = "new"
                                                                              /\ active_downloads[k].task.cancel = "none"
                                                                              /\ active_downloads[k].task.type = loaded[k].source_dict.type
                                                                              /\ active_downloads[k].task.value = loaded[k].source_dict.value
                                                                              /\ active_downloads[k].task.save_path = loaded[k].save_path
                                                                              /\ active_downloads[k].task.chat_id = loaded[k].chat_id

C9_Witness == /\ last.op = "post_init"
              /\ Cardinality(DOMAIN active_downloads) = 2
              /\ \E k \in DOMAIN active_downloads : active_downloads[k].save_path = "tv_shows"

\* C10: loading what save_active_downloads writes for the active set gives
\* the same keys and, per key, the same descriptor type and value and the
\* same save path, and no task entry.
C10_RoundTrip == LET back == load_active_downloads(save_active_downloads(active_downloads))
                 IN /\ back.t = "dict"
                    /\ DOMAIN back.items = DOMAIN active_downloads
                    /\ \A k \in DOMAIN active_downloads : /\ back.items[k].source_dict.type = active_downloads[k].source_dict.type
                                                          /\ back.items[k].source_dict.value = active_downloads[k].source_dict.value
                                                          /\ back.items[k].save_path = active_downloads[k].save_path
                                                          /\ "task" \notin DOMAIN back.items[k]

C10_Witness == /\ Cardinality(DOMAIN active_downloads) = 2
               /\ \E k \in DOMAIN active_downloads : "task" \in DOMAIN active_downloads[k] /\ active_downloads[k].source_dict.type = "magnet"
               /\ Len(save_active_downloads(active_downloads)) = 4

\* C7: a process stopped during a save leaves the file holding the complete
\* previous text or the complete new one.
C7_SaveAtomic == last.op = "killed_in_save" => persistence_file \in {last.old, last.new}

\* A text save_active_downloads can have written in full.
WellFormed(file) == /\ IsObjectText(file)
                    /\ \A i \in 2..(Len(file) - 1) : IsRecord(file[i].v)

\* C8: for a missing file and for content that is not a well-formed
\* serialized active set load_active_downloads returns the empty set, and
\* post_init then completes without raising.
C8_LoadTolerant == /\ (persistence_file = Missing \/ ~WellFormed(persistence_file)) => load_active_downloads(persistence_file) = PyDict(<<>>)
                   /\ last.op = "post_init" => phase = "running"

\* C11: a task that ends with the flag clear leaves no record of its chat
\* in the active set nor in the persistence file and no .torrent file of
\* its own; a task that ends with the flag set leaves all three as they were.
C11_CleanupOnEnd == [][last'.op = "task_end" => IF ~last'.flag
                                                  THEN /\ ChatKey(last'.chat) \notin DOMAIN active_downloads'
                                                       /\ ChatKey(last'.chat) \notin DOMAIN load_active_downloads(persistence_file').items
                                                       /\ last'.torrent \notin torrents_dir'
                                                  ELSE /\ Stored(active_downloads') = Stored(active_downloads)
                                                       /\ persistence_file' = persistence_file
                                                       /\ torrents_dir' = torrents_dir]_vars

\* C12: while post_shutdown waits, every task of the active set that is not
\* done has its cancellation requested; post_shutdown returns only when all
\* tasks of the active set are done; and with the event loop running the
\* tasks that are ready it does return.
C12_ShutdownDrains == /\ [](phase = "draining" => \A h \in Held : done(h.task) \/ h.task.cancel = "shutdown")
                      /\ [][phase' = "stopped" => \A h \in Held : done(h.task)]_vars
                      /\ (phase = "draining") ~> (phase = "stopped")

C12_Witness == /\ phase = "draining"
               /\ \E h \in Held : h.task.pc = "post_processing" /\ h.task.cancel = "shutdown"
               /\ \E h \in Held : h.task.pc = "final_notify" /\ h.task.cancel = "shutdown"

\* C15: validate_torrent_files rejects a manifest exactly when it has no
\* entry, or an entry larger than 10 MiB has an extension outside the
\* allowlist, or no entry is larger than 10 MiB and the largest entry (the
\* first of them in manifest order, if several are as large) has one.
C15_FileTypePolicy == last.op = "policy" => LET ti == last.ti
                                                large == {i \in 1..Len(ti) : Gt(ti[i].size, Size(0, 10485760))}
                                                allowed(i) == ti[i].ext \in {".mkv", ".mp4", ".MKV"}
                                                biggest == {i \in 1..Len(ti) : \A j \in 1..Len(ti) : ~Gt(ti[j].size, ti[i].size)}
                                                first == CHOOSE i \in biggest : \A j \in biggest : i <= j
                                            IN (last.validation # "ok") <=> \/ Len(ti) = 0
                                                                            \/ \E i \in large : ~allowed(i)
                                                                            \/ large = {} /\ Len(ti) > 0 /\ ~allowed(first)

C15_Witness == /\ last.op = "policy"
               /\ last.ti = <<[size |-> Size(0, 52428800), ext |-> ".exe"], [size |-> Size(0, 629145600), ext |-> ".mkv"]>>
               /\ last.validation = "unsupported file type"

\* C13: no task exists for a manifest that fails the size ceiling or the
\* file-type policy, and on both submission paths a rejected manifest is
\* answered by a rejection message that is shown to the user and states the
\* reason, and leaves no pending_torrent for the manifest.
C13_RejectedNeverStarts == LET fails(ti) == size_exceeded(ti) \/ validate_torrent_files(ti) # "ok"
                           IN /\ \A h \in Handles : ~fails(h.task.value.info_hash)
                              /\ \A u \in Users : user_data[u].pending_torrent # NoPending => ~fails(user_data[u].pending_torrent.value.info_hash)
                              /\ (last.op \in {"handle_message", "select_magnet"} /\ "ti" \in DOMAIN last /\ fails(last.ti)) => last.verdict \in {"size", "type"} /\ last.shown

\* C14: a manifest whose total size is exactly MAX_TORRENT_SIZE_BYTES is
\* not turned down by the size check, and a manifest whose total size is
\* larger by a byte or more is turned down with a size-exceeded message
\* that is shown to the user.
C14_SizeBoundary == (last.op \in {"handle_message", "select_magnet"} /\ "ti" \in DOMAIN last)
                    => LET total == total_size(last.ti)
                       IN /\ total = Size(10, 0) => last.verdict # "size"
                          /\ (total.g > 10 \/ (total.g = 10 /\ total.b >= 1)) => /\ last.verdict = "size"
                                                                                 /\ last.shown
                                                                                 /\ \E i \in 1..Len(last.text) : last.text[i] = "Size Limit Exceeded"

\* C16: whenever _blocking_fetch_metadata has returned, with metadata, after
\* the timeout or after an exception, the shared session holds no torrent:
\* no probe leaves a registration behind, however many have run.
C16_ProbeDeregisters == worker.pc \in {"idle", "returned"} => TORRENT_SESSION = {}

C16_Witness == /\ worker.pc = "returned"
               /\ worker.result = "none"
               /\ worker.elapsed >= 60
               /\ last.outcome = "timeout"
               /\ TORRENT_SESSION = {}

\* C17: every wait for metadata ends although no peer supplies metadata and
\* nobody cancels: the probe returns after at most timeout_seconds of
\* polling, and a magnet transfer that waits for its metadata leaves the
\* wait.
C17_BoundedWaits == /\ [](worker.pc = "polling" => worker.elapsed <= 61)
                    /\ (worker.pc = "polling") ~> (worker.pc = "returned")
                    /\ \A c \in Chats : (ChatKey(c) \in DOMAIN active_downloads /\ active_downloads[ChatKey(c)].task.pc = "meta_wait")
                                        ~> ~(ChatKey(c) \in DOMAIN active_downloads /\ active_downloads[ChatKey(c)].task.pc = "meta_wait")

\* C18: the process has one engine session, the one made at startup, and
\* every transfer under way has its torrent registered with it.
C18_SingleSession == /\ engine_sessions.shared + engine_sessions.own = 1
                     /\ \A h \in Handles : h.task.pc \in HoldsSession => session_of(h) = "TORRENT_SESSION"

\* C19: a /cancel for one chat, the cancellation it delivers and the cleanup
\* that follows leave the running transfer of every other chat as it was:
\* its task, its record in the active set, its record in persistence.json
\* and its partial data on disk, whether or not the save directory is shared.
C19_CancelFrame == [][\A a \in Chats :
                        (\/ /\ ChatKey(a) \in DOMAIN active_downloads /\ ChatKey(a) \in DOMAIN active_downloads'
                            /\ active_downloads[ChatKey(a)].task.cancel = "none" /\ active_downloads'[ChatKey(a)].task.cancel = "user"
                         \/ /\ last'.op \in {"cancel_observed", "task_end"}
                            /\ last'.chat = a
                            /\ last'.by = "user" \/ last'.outcome = "user_cancelled")
                        => \A b \in Chats \ {a} :
                             (ChatKey(b) \in DOMAIN active_downloads /\ ~done(active_downloads[ChatKey(b)].task))
                             => /\ ChatKey(b) \in DOMAIN active_downloads'
                                /\ active_downloads'[ChatKey(b)] = active_downloads[ChatKey(b)]
                                /\ ChatKey(b) \in DOMAIN load_active_downloads(persistence_file').items
                                /\ load_active_downloads(persistence_file').items[ChatKey(b)] = load_active_downloads(persistence_file).items[ChatKey(b)]
                                /\ parts_file(active_downloads[ChatKey(b)].task) \in parts_files => parts_file(active_downloads[ChatKey(b)].task) \in parts_files']_vars

\* C20: a transfer the user has cancelled ends reported by the Cancelled
\* message and not by the Error message, and a transfer that ends by an
\* exception ends reported by the Error message and not by the Cancelled or
\* the Success message.  The outcome of a task's end tells the message that
\* was shown: user_cancelled the Cancelled one, error the Error one, success
\* the Success one, any other outcome none.
C20_DistinctReports == last.op = "task_end" => /\ (last.by = "user" \/ last.point = "cancel_notify") => last.outcome = "user_cancelled"
                                               /\ (last.by # "user" /\ last.point = "error_notify") => last.outcome = "error"

\* C21: every task that ends while the shutdown flag is clear has shown a
\* final message to its chat (Success, Cancelled or Error); a transfer whose
\* .torrent file cannot be loaded when the task runs is reported as failed.
C21_FinalNotification == (last.op = "task_end" /\ ~last.flag) => /\ last.outcome \in {"success", "user_cancelled", "error"}
                                                                 /\ last.point = "new" => last.outcome = "error"

\* C22: a write of the persistence file that fails does not leave
\* save_active_downloads.  button_handler has queued the download all the
\* same: the record with its task is in the active set and the pending
\* torrent is popped.  The cleanup of a finished task goes on all the same:
\* the record is dropped, the .torrent file is removed, and the transfer
\* whose Success message was sent ends as a success.
C22_SaveFailureSwallowed == [][/\ last'.op = "confirm_download" => /\ last'.outcome = ""
                                                                  /\ ChatKey(last'.chat) \in DOMAIN active_downloads'
                                                                  /\ active_downloads'[ChatKey(last'.chat)].task.pc = "new"
                                                                  /\ \E u \in Users : user_data[u].pending_torrent # NoPending /\ user_data'[u].pending_torrent = NoPending
                               /\ (last'.op = "task_end" /\ ~last'.flag) => /\ ChatKey(last'.chat) \notin DOMAIN active_downloads'
                                                                            /\ last'.torrent \notin torrents_dir'
                                                                            /\ last'.point = "final_notify" => last'.outcome = "success"]_vars

C22_Witness == /\ last.op = "task_end"
               /\ last.point = "final_notify"
               /\ last.outcome = "success"
               /\ active_downloads = EmptyDict
               /\ persistence_file # save_active_downloads(active_downloads)
               /\ torrents_dir = {}

\* C23: two consecutive edits of the progress message made by
\* report_progress for one transfer are at least 5 seconds apart, the call
\* after the loop included.
C23_EditsThrottled == transfer.previous # Never => transfer.edited - transfer.previous >= throttle_seconds

C23_Witness == /\ transfer.pc = "pause"
               /\ transfer.by = "last"
               /\ transfer.previous # Never
               /\ transfer.edited - transfer.previous > throttle_seconds

\* C24: when the loop has ended with the transfer complete, the call of the
\* status callback after the loop has edited the message of the chat, which
\* shows the completed state.
C24_LastCallUpdates == transfer.pc \in {"pause", "returned"} => /\ transfer.by = "last"
                                                                /\ transfer.message \in Completed

\* C25: the second of two calls of save_active_downloads on an active set
\* that has not changed leaves in the file the content the first one wrote.
C25_SaveTwiceSameBytes == (last.op = "save" /\ last.calls = 2) => persistence_file = last.before

C25_Witness == /\ last.op = "save"
               /\ last.calls = 2
               /\ Cardinality(DOMAIN active_downloads) = 2
               /\ persistence_file = last.before
               /\ persistence_file = save_active_downloads(active_downloads)

\* C26: format_bytes gives "1023B" for 1023 bytes and "1 KB" for 1024
\* bytes, and the unit of its text is KB from 1024 bytes, MB from 1024^2
\* bytes and GB from 1024^3 bytes on, the unit below up to one byte less.
C26_UnitBoundaries == last.op = "formatted" => /\ (last.size_bytes = Size(0, 1023) => last.text = <<"1023", "B">>)
                                               /\ (last.size_bytes = Size(0, 1024) => last.text = <<"1", " KB">>)
                                               /\ (unit_of(last.text) = " KB" <=> (last.size_bytes.g = 0 /\ last.size_bytes.b \in 1024..1048575))
                                               /\ (unit_of(last.text) = " MB" <=> (last.size_bytes.g = 0 /\ last.size_bytes.b >= 1048576))
                                               /\ (unit_of(last.text) = " GB" <=> last.size_bytes.g > 0)

\* C27: when a cancelled task has ended, by the user's /cancel, by the
\* shutdown or by both, the data of its transfer has been deleted if and
\* only if the record of its chat is gone from the active set and from the
\* persistence file.
C27_DeleteIffDropped == (last.op = "task_end" /\ last.outcome \in {"user_cancelled", "cancelled", "cancelled_unstarted"}) =>
                            (last.data = "delete" <=> (ChatKey(last.chat) \notin DOMAIN active_downloads /\ ChatKey(last.chat) \notin DOMAIN load_active_downloads(persistence_file).items))

\* C28: a /cancel sent by a user whom /delete has left waiting for a title
\* clears waiting_for_delete_input, so that the next text of that user goes
\* to handle_message.
C28_CancelEndsDelete == [][\A u \in Users, c \in CommandChats :
                             (is_user_authorized(u) /\ waiting_for_delete_input_filter(u) /\ (cancel_command(c) \/ cancel_command_idle(c)))
                             => ~user_data'[u].waiting_for_delete_input]_vars

\* C29: confirm_delete removes no media file while the chat it is pressed in
\* has a record in the active set.
C29_NoDeleteWhileActive == (last.op = "confirm_delete" /\ last.removed) => ChatKey(last.chat) \notin DOMAIN active_downloads

\* C30: with a list of allowed users that is not empty, an update from a
\* user who is not on it gets no reply and changes nothing: user_data, the
\* active set and its tasks, the files.
C30_StrangersIgnored == [][(/\ last'.op \in GuardedHandlers \cup {"start_command"}
                            /\ ALLOWED_USER_IDS # {}
                            /\ last'.user \notin ALLOWED_USER_IDS)
                           => /\ ~last'.reply
                              /\ UNCHANGED <<is_shutting_down, active_downloads, persistence_file, loop_tasks, user_data, torrents_dir, phase, media_files, parts_files>>]_vars

\* C31: handle_delete_input given a text that parses as neither a movie nor
\* an episode leaves the user waiting for a title and leaves user_data, the
\* active set, the tasks and the files as they were; given a text that
\* parses it clears the flag.
C31_UnknownInputKeepsWaiting == [][(last'.op = "handle_delete_input" /\ last'.reply) =>
                                     IF last'.kind = "unknown"
                                     THEN /\ user_data'[last'.user].waiting_for_delete_input
                                          /\ UNCHANGED <<user_data, active_downloads, persistence_file, loop_tasks, torrents_dir, media_files, parts_files, is_shutting_down, phase>>
                                     ELSE ~user_data'[last'.user].waiting_for_delete_input]_vars

C31_Witness == /\ last.op = "handle_delete_input"
               /\ last.reply
               /\ last.kind = "unknown"
               /\ user_data[last.user].waiting_for_delete_input
               /\ user_data[last.user].pending_delete_info \in Library

\* C32: a press of confirm_download or cancel_operation consumes the pending
\* torrent; a task or a record of the active set only comes into being, one
\* at a time, in a step that pops a pending torrent which was there, so a
\* press without one creates nothing (post_init is the one other maker of
\* tasks).
C32_PendingStartsOnce == [][last'.op # "post_init" =>
                              /\ AllLive' <= AllLive + 1
                              /\ (AllLive' > AllLive \/ ~(DOMAIN active_downloads' \subseteq DOMAIN active_downloads))
                                 => \E u \in Users : user_data[u].pending_torrent # NoPending /\ user_data'[u].pending_torrent = NoPending]_vars

C32_Witness == /\ last.op = "confirm_download"
               /\ \A u \in Users : user_data[u].pending_torrent = NoPending
               /\ ChatKey(last.chat) \in DOMAIN active_downloads
               /\ active_downloads[ChatKey(last.chat)].task.pc = "new"
               /\ AllLive = 1

\* C33: the record a task deletes when it ends with the flag clear is its
\* own: the task the deleted record holds does not go on running without a
\* record.
C33_DeletesOwnRecord == [][(/\ last'.op = "task_end"
                            /\ ~last'.flag
                            /\ ChatKey(last'.chat) \in DOMAIN active_downloads
                            /\ ChatKey(last'.chat) \notin DOMAIN active_downloads')
                           => CopiesIn(active_downloads[ChatKey(last'.chat)].task, loop_tasks') <= CopiesIn(active_downloads[ChatKey(last'.chat)].task, loop_tasks)]_vars

\* C34: while the shutdown flag is false and the application is running,
\* every record in the active set has a task that is not done.
C34_RecordsHaveRunningTasks == (~is_shutting_down /\ phase = "running") => \A h \in Held : ~done(h.task)

\* C35: the .torrent file of every record of type 'file' in the active set
\* is on disk for as long as the record's own task has not ended.
C35_TorrentFileKept == \A h \in Held : (h.task.type = "file" /\ ~done(h.task)) => h.task.value \in torrents_dir

\* C36: a confirm_download press starts the torrent described in the prompt
\* whose button was pressed.
C36_StartsPressedPrompt == [][last'.op = "confirm_download" =>
                              torrent_of(active_downloads'[ChatKey(prompts[last'.message].chat)].source_dict) = prompts[last'.message].source]_vars

\* C37: an edit of the progress message that raises, whatever the error,
\* does not end the transfer: the executor never leaves the transfer loop
\* with the exception of the edit.
C37_EditFailureKeepsTransfer == transfer.pc # "raised"

\* C38: a transfer whose download completed is not relaunched at a later
\* startup: when the only task of a chat ends after download_with_progress
\* has returned success, the persistence file, which is what the next
\* startup loads, holds no record of the chat.
C38_CompletedNotRelaunched == [][(/\ last'.op = "task_end"
                                  /\ last'.point \in {"post_processing", "final_notify"}
                                  /\ LiveTasks(last'.chat) = 1
                                  /\ ChatKey(last'.chat) \in DOMAIN active_downloads
                                  /\ ~done(active_downloads[ChatKey(last'.chat)].task))
                                 => ChatKey(last'.chat) \notin DOMAIN load_active_downloads(persistence_file').items]_vars

\* C39: download_with_progress gives priority 1 to exactly the entries
\* whose lower-cased extension is in the allowlist and priority 0 to all
\* others, and a manifest validate_torrent_files accepts has at least one
\* entry of priority 1.
C39_PrioritiesFollowAllowlist == last.op = "prioritize_files" =>
                                    /\ Len(last.priorities) = Len(last.ti)
                                    /\ \A i \in 1..Len(last.ti) : last.priorities[i] = (IF lower(last.ti[i].ext) \in ALLOWED_EXTENSIONS THEN 1 ELSE 0)
                                    /\ last.validation = "ok" => \E i \in 1..Len(last.ti) : last.priorities[i] = 1

C39_Witness == /\ last.op = "prioritize_files"
               /\ last.validation = "ok"
               /\ Len(last.ti) = 2
               /\ last.ti[1].ext = ".exe" /\ last.priorities[1] = 0
               /\ last.ti[2].ext = ".MKV" /\ last.priorities[2] = 1

====
